---- MODULE Spec2Model ----
(***************************************************************************)
(* Model of the interrupt-driven control subsystem of the turret firmware: *)
(* the monotonic tick clock (rangefinder/src/clock.rs and the plain        *)
(* counter clock of src/ir.rs), the servo pulse multiplexer                *)
(* (rangefinder/src/servo.rs), the turret dispatcher                       *)
(* (rangefinder/src/turret.rs) and the ultrasonic ranging driver           *)
(* (src/hc_sr04.rs).                                                       *)
(*                                                                         *)
(* Integer arithmetic keeps the width of the Rust types.  An overflowing   *)
(* +, - or * either wraps or panics depending on the build profile         *)
(* (overflow-checks); the profile is the variable overflowChecks, chosen   *)
(* in the initial state.  A panic in the main context ends in panic_halt:  *)
(* the main context stops (halted) while interrupts keep running.          *)
(***************************************************************************)
EXTENDS Integers, Sequences, FiniteSets, TLC

VARIABLES
    overflowChecks, \* build profile: TRUE = overflowing arithmetic panics
    clockCfg,       \* the const parameters KHZ and PRESCALE of the clock type
    clockBuild,     \* what the compiler made of Clock<KHZ, PRESCALE>: rejected, or TOP
    halted,         \* "run"; "main": the main context panicked (panic_halt spins,
                    \* interrupts go on); "isr": a handler panicked with
                    \* interrupts disabled, nothing runs any more
    \* ---- clock.rs: Clock<40, 8>
    part,           \* AtomicU8 sub-counter
    counter,        \* Mutex<Cell<u32>> main counter
    plainCounter,   \* ir.rs Clock: the one-increment-per-tick counter
    nTicks,         \* number of TIMER0_COMPA interrupts so far (bounded)
    lastNow,        \* value returned by the latest now() read
    sinceRead,      \* ticks since that read
    foldSinceRead,  \* a folding tick happened since that read
    \* ---- servo.rs
    tc1Donated,     \* static TC1 is Some
    servos,         \* static SERVOS: sequence of ServoInternal (slot i is servos[i+1])
    limits,         \* the handle of each slot: its min and max fields
    CHANNEL,        \* static CHANNEL: i8
    tcnt,           \* timer 1 counter TCNT1 as of the latest handler run or reset
    ocr1a,          \* timer 1 compare register OCR1A
    ocie1a,         \* timer 1 compare interrupt enable bit
    timerRunning,   \* timer 1 has its prescaler selected (it counts)
    newResult,      \* result of the latest Servo::new
    lastWrite,      \* per slot: the latest write()/write_us() request, or NoWrite
    attachedWith,   \* per slot: the min and max arguments of the latest attach
    frameElapsed,   \* timer ticks since the latest frame start (-1: none yet)
    framePeriod,    \* after a handler run that starts a frame: the length of the
                    \* frame it ended, in timer ticks (-1 otherwise)
    edges,          \* per slot: pin edges driven in the current frame
    steady,         \* no slot was registered, attached or detached in the current frame
    framesOk,       \* every completed steady frame pulsed each attached slot once
    \* ---- turret dispatcher (rangefinder/src/turret.rs, rangefinder/src/ir.rs) ----
    CMD,            \* the command mailbox: NoCmd or the latest decoded command
    pitch_value,    \* Turret::pitch_value
    turretPc,       \* where the main loop is inside handle_command
    dispatched,     \* the command handle_command fetched last (NoCmd: none yet)
    written,        \* the <<slot, value>> writes of that command, in order
    fetchPc,        \* position of the main loop inside fetch_message
    fetched,        \* the value the latest fetch_message read from the mailbox
    irqOff,         \* the global interrupt flag is cleared (interrupt::free)
    stored,         \* PCINT0 has stored a command since the mailbox was cleared last
    builder,        \* turret/builder.rs: the Builder value, per field the slot it holds
    turret,         \* the Turret value Builder::build has returned, or NoTurret
    decodeLog,      \* the command PCINT0 decoded last, the commands decoded during a motion
                    \* since the latest fetch_message, and that number at the latest fetch
    \* ---- ranging driver (src/hc_sr04.rs, src/interrupt.rs) ----
    hcState,        \* the static STATE (HcSr04State)
    TRIGGER_TIME,   \* u32 cell
    ECHO_TIME,      \* u32 cell
    measurePc,      \* where the main context is inside measure_us
    timeout,        \* the timeout argument in clock ticks (NoTimeout: None)
    start,          \* the local start of measure_us
    trigger,        \* the local trigger of the wait loop, as trigger > 0
    echoPin,        \* level of the echo pin
    int1Enabled,    \* EIMSK.INT1
    int1Mode,       \* EICRA.ISC1
    int1Flag,       \* EIFR.INTF1
    result,         \* what the latest measure_us returned
    isrTrigger,     \* the tick INT1 stored last in state Triggered (NotCaptured: none)
    isrEcho,        \* the tick INT1 stored last in state Measuring (NotCaptured: none)
    pulsed,         \* the running measure_us call has pulsed the trigger pin
    sawHigh,        \* the wait loop of the latest call has read the echo pin high
    echoEdges,      \* the echo edges since the latest call armed INT1: "none", "rose", "fell"
    \* ---- start-up (rangefinder/src/main.rs) ----
    mainPc,         \* the statement of main that runs next ("loop": the main loop)
    RECEIVER,       \* ir.rs: the static RECEIVER holds a receiver (is Some)
    pcie0,          \* pin change interrupt 0 is enabled for the receiver pin
    ocie0a          \* timer 0 compare interrupt enable bit

clockVars == <<part, counter, plainCounter, nTicks, lastNow, sinceRead, foldSinceRead>>
servoState == <<tc1Donated, servos, limits, CHANNEL, tcnt, ocr1a, ocie1a, timerRunning>>
servoGhost == <<newResult, lastWrite, attachedWith, frameElapsed, framePeriod, edges, steady, framesOk>>
servoVars == <<servoState, servoGhost>>

fetchVars == <<fetchPc, fetched, irqOff, stored>>
turretVars == <<CMD, pitch_value, turretPc, dispatched, written, decodeLog, fetchVars>>

rangeVars == <<hcState, TRIGGER_TIME, ECHO_TIME, measurePc, timeout, start, trigger, echoPin,
               int1Enabled, int1Mode, int1Flag, result, isrTrigger, isrEcho, pulsed,
               sawHigh, echoEdges>>

builderVars == <<builder, turret>>

buildVars == <<overflowChecks, clockCfg, clockBuild>>

startVars == <<mainPc, RECEIVER, pcie0, ocie0a>>

vars == <<buildVars, halted, clockVars, servoVars, turretVars, rangeVars, builderVars,
          startVars>>

\* what the actions of one component leave alone
ClockOnly == UNCHANGED <<buildVars, servoVars, turretVars, rangeVars, builderVars, startVars>>
ServoOnly == UNCHANGED <<buildVars, clockVars, turretVars, rangeVars, builderVars, startVars>>
TurretOnly == UNCHANGED <<buildVars, clockVars, rangeVars, builderVars, startVars>>
RangeOnly == UNCHANGED <<buildVars, clockVars, servoVars, turretVars, builderVars, startVars>>
BuilderOnly == UNCHANGED <<buildVars, clockVars, turretVars, rangeVars, startVars>>

(***************************************************************************)
(* Fixed-width integer helpers.                                            *)
(***************************************************************************)
U8Mod  == 256
U16Mod == 65536

WrapU8(x)  == x % U8Mod
WrapU16(x) == x % U16Mod

\* A u32 is the pair <<high half, low half>> of 16-bit halves (the checker's
\* integers are narrower than 2^32).
U32Of(n)      == <<(n \div U16Mod) % U16Mod, n % U16Mod>>
U32Zero       == <<0, 0>>
\* a + b overflows 32 bits
U32AddOverflows(a, b) == a[1] + b[1] + ((a[2] + b[2]) \div U16Mod) >= U16Mod
\* wrapping_add / the wrapping result of +
U32Add(a, b)  == <<(a[1] + b[1] + ((a[2] + b[2]) \div U16Mod)) % U16Mod, (a[2] + b[2]) % U16Mod>>
\* wrapping_sub
U32Sub(a, b)  == <<(a[1] - b[1] - (IF a[2] < b[2] THEN 1 ELSE 0)) % U16Mod, (a[2] - b[2]) % U16Mod>>
U32Less(a, b) == a[1] < b[1] \/ (a[1] = b[1] /\ a[2] < b[2])
U32Leq(a, b)  == a = b \/ U32Less(a, b)
\* two's complement i16 of an integer
WrapI16(x) == LET m == x % U16Mod IN IF m >= 32768 THEN m - U16Mod ELSE m
InI16(x)   == x >= -32768 /\ x <= 32767
\* Rust integer division truncates toward zero
TruncDiv(a, b) ==
    IF (a >= 0) = (b > 0) THEN (IF a >= 0 THEN a ELSE -a) \div (IF b > 0 THEN b ELSE -b)
    ELSE -((IF a >= 0 THEN a ELSE -a) \div (IF b > 0 THEN b ELSE -b))
Clamp(x, lo, hi) == IF x < lo THEN lo ELSE IF x > hi THEN hi ELSE x

(***************************************************************************)
(* Bounds of the model.                                                    *)
(***************************************************************************)
MaxTicks == 300      \* TIMER0_COMPA interrupts explored by the clock specification

MainRunning == halted = "run"
IrqRunning  == halted # "isr"

\* The compile-time part of rangefinder/src/clock.rs
F_CPU == 16000000
U32ProductMax == 4294967     \* the largest p with p * 1000 below 2^32

\* (16_000_000 / (PRESCALE * KHZ * 1_000)) - 1 as the constant evaluator
\* computes it in u32: an error (overflow of the product, division by zero,
\* underflow of the subtraction), or the value.  The product is not formed
\* where it exceeds 16,000,000 (the quotient is 0 there).
TopExpr(khz, prescale) ==
    IF prescale * khz > U32ProductMax THEN [err |-> TRUE, val |-> 0]
    ELSE IF prescale * khz = 0 THEN [err |-> TRUE, val |-> 0]
    ELSE LET q == IF prescale * khz > F_CPU \div 1000 THEN 0
                  ELSE F_CPU \div (prescale * khz * 1000)
         IN  IF q = 0 THEN [err |-> TRUE, val |-> 0] ELSE [err |-> FALSE, val |-> q - 1]

\* Clock<KHZ, PRESCALE> without the where clause: TOP is the cast of the value
ClockTypeUnasserted(khz, prescale) ==
    LET e == TopExpr(khz, prescale)
    IN  IF e.err THEN [st |-> "rejected", top |-> 0, freq |-> 0]
        ELSE [st |-> "ok", top |-> WrapU8(e.val), freq |-> khz * 1000]

\* Clock<KHZ, PRESCALE>: the where clause Assert<{ ... < 256 }>: IsTrue, and
\* the associated constants FREQ and TOP
ClockType(khz, prescale) ==
    LET e == TopExpr(khz, prescale)
    IN  IF e.err \/ ~(e.val < 256) THEN [st |-> "rejected", top |-> 0, freq |-> 0]
        ELSE [st |-> "ok", top |-> WrapU8(e.val), freq |-> khz * 1000]

\* pub static CLOCK: Clock<40, 8>
ClockKhz == 40
ClockPrescale == 8

\* main has reached its loop: the receiver is stored, the pin change and the
\* clock interrupts are enabled
MainStarted ==
    /\ mainPc = "loop"
    /\ RECEIVER = TRUE
    /\ pcie0 = TRUE
    /\ ocie0a = TRUE

ProfileInit ==
    /\ overflowChecks \in BOOLEAN
    /\ halted = "run"
    /\ MainStarted

\* the firmware as built: either profile, the clock type instantiated
BuildInit ==
    /\ ProfileInit
    /\ clockCfg = [khz |-> ClockKhz, prescale |-> ClockPrescale]
    /\ clockBuild = ClockType(ClockKhz, ClockPrescale)

\* the compiler instantiating the clock type
compile ==
    /\ clockBuild.st = "source"
    /\ clockBuild' = ClockType(clockCfg.khz, clockCfg.prescale)
    /\ UNCHANGED <<overflowChecks, clockCfg, halted, clockVars, servoVars, turretVars,
                   rangeVars, builderVars, startVars>>

(***************************************************************************)
(* Monotonic clock, rangefinder/src/clock.rs                               *)
(***************************************************************************)
FoldThreshold == 250

\* Clock::now: counter + part as u32 (a plain +: wraps or panics)
NowPanics == overflowChecks /\ U32AddOverflows(counter, U32Of(part))
now       == U32Add(counter, U32Of(part))

\* Start values of the main counter: after construction, and shortly before
\* the 32-bit counter wraps (reached after 2^32 - 260 counted ticks).
CounterStarts == {U32Zero, <<U16Mod - 1, U16Mod - 260>>}

ClockInit ==
    /\ part = 0
    /\ counter \in CounterStarts
    /\ plainCounter = counter
    /\ nTicks = 0
    /\ lastNow = counter
    /\ sinceRead = 0
    /\ foldSinceRead = FALSE

\* a tick that folds without adding the sub-counter to the main counter
tickDropsPart ==
    IF part > FoldThreshold
    THEN /\ part' = 0
         /\ counter' = counter
    ELSE /\ part' = part + 1
         /\ counter' = counter

\* a tick that folds one tick early, at part >= 250
tickFoldsEarly ==
    IF part >= FoldThreshold
    THEN /\ part' = 0
         /\ counter' = U32Add(counter, U32Of(part))
    ELSE /\ part' = part + 1
         /\ counter' = counter

\* Clock::tick
tick ==
    IF part > FoldThreshold
    THEN /\ part' = 0
         /\ counter' = U32Add(counter, U32Of(part))
    ELSE /\ part' = part + 1
         /\ counter' = counter

\* ir.rs Clock::tick: counter.wrapping_add(1)
plainTick == plainCounter' = U32Add(plainCounter, U32Of(1))

\* TIMER0_COMPA: one compare-match interrupt ticks the clock
TIMER0_COMPA ==
    /\ IrqRunning
    /\ nTicks < MaxTicks
    /\ tick
    /\ plainTick
    /\ nTicks' = nTicks + 1
    /\ sinceRead' = sinceRead + 1
    /\ foldSinceRead' = (foldSinceRead \/ part > FoldThreshold)
    /\ UNCHANGED <<lastNow, halted>>

\* a now() read from the main context
NowRead ==
    /\ MainRunning
    /\ IF NowPanics
       THEN /\ halted' = "main"
            /\ UNCHANGED <<lastNow, sinceRead, foldSinceRead>>
       ELSE /\ lastNow' = now
            /\ sinceRead' = 0
            /\ foldSinceRead' = FALSE
            /\ UNCHANGED halted
    /\ UNCHANGED <<part, counter, plainCounter, nTicks>>


(***************************************************************************)
(* Servo pulse multiplexer, rangefinder/src/servo.rs                       *)
(***************************************************************************)
MAX_SERVOS == 12
REFRESH_INTERVAL == 20000
MIN_PULSE_WIDTH == 544
MAX_PULSE_WIDTH == 2400
DEFAULT_PULSE_WIDTH == 1500
TRIM_DURATION == 0
CLOCK_CYCLES_PER_MICROSECOND == 16000000 \div 1000000

\* Bounds of the servo specification
RegBound   == 3      \* actuators registered by the API specification

\* Inputs of the servo specification
WriteAngles  == {0, 90, 180}                     \* write(value)
WriteMicros  == {1000, 3000}                      \* write_us(value)
AttachLimits == {<<MIN_PULSE_WIDTH, MAX_PULSE_WIDTH>>}
Latencies    == {0, 1}   \* timer ticks from a compare match to the handler's counter read

NoWrite == [kind |-> "none", value |-> 0, lo |-> 0, hi |-> 0]

\* the arguments Servo::attach passes to attach_with_limits
DefaultLimits == [min |-> MIN_PULSE_WIDTH, max |-> MAX_PULSE_WIDTH]

Slots == 1..Len(servos)

\* fn us_to_ticks (for us below 2^27)
us_to_ticks(us) == (us * CLOCK_CYCLES_PER_MICROSECOND) \div 8

\* fn map on i16 operands: the value the wrapping arithmetic yields, and
\* whether an intermediate result left the i16 range
map(value, from_low, from_high, to_low, to_high) ==
    LET d1 == value - from_low
        d2 == to_high - to_low
        m  == WrapI16(d1) * WrapI16(d2)
        dv == from_high - from_low
        q  == TruncDiv(WrapI16(m), WrapI16(dv))
        r  == WrapI16(q) + to_low
    IN  [val |-> WrapI16(r),
         ovf |-> ~InI16(d1) \/ ~InI16(d2) \/ ~InI16(m) \/ ~InI16(dv)
                 \/ ~InI16(q) \/ ~InI16(r)]

\* Servo::servo_min, Servo::servo_max of the handle of slot i
servo_min(i) == WrapI16(MIN_PULSE_WIDTH - WrapI16(limits[i].min * 4))
servo_max(i) == WrapI16(MAX_PULSE_WIDTH - WrapI16(limits[i].max * 4))
LimitsOverflow(i) ==
    \/ ~InI16(limits[i].min * 4) \/ ~InI16(MIN_PULSE_WIDTH - WrapI16(limits[i].min * 4))
    \/ ~InI16(limits[i].max * 4) \/ ~InI16(MAX_PULSE_WIDTH - WrapI16(limits[i].max * 4))

\* Servo::is_timer_active, evaluated on a slot table
is_timer_active(table) == \E k \in 1..Len(table) : table[k].attached

ServoInit ==
    /\ tc1Donated = FALSE
    /\ servos = <<>>
    /\ limits = <<>>
    /\ CHANNEL = 0
    /\ tcnt = 0
    /\ ocr1a = 0
    /\ ocie1a = FALSE
    /\ timerRunning = FALSE
    /\ newResult = "none"
    /\ lastWrite = <<>>
    /\ attachedWith = <<>>
    /\ frameElapsed = -1
    /\ framePeriod = -1
    /\ edges = <<>>
    /\ steady = TRUE
    /\ framesOk = TRUE

\* fn donate_tc1
donate_tc1 ==
    /\ MainRunning
    /\ ~tc1Donated
    /\ tc1Donated' = TRUE
    /\ UNCHANGED <<servos, limits, CHANNEL, tcnt, ocr1a, ocie1a, timerRunning, servoGhost>>
    /\ UNCHANGED halted

\* Servo::new without the test of TC1
ServoNewUnchecked ==
    /\ MainRunning
    /\ IF Len(servos) >= MAX_SERVOS
       THEN /\ newResult' = "TooManyServos"
            /\ UNCHANGED <<servos, limits, lastWrite, attachedWith, edges, steady>>
       ELSE /\ newResult' = "Ok"
            /\ servos' = Append(servos, [ticks |-> DEFAULT_PULSE_WIDTH,
                                         attached |-> FALSE, pin |-> FALSE])
            /\ limits' = Append(limits, [min |-> 0, max |-> 0])
            /\ lastWrite' = Append(lastWrite, NoWrite)
            /\ attachedWith' = Append(attachedWith, DefaultLimits)
            /\ edges' = Append(edges, <<>>)
            /\ steady' = FALSE
    /\ UNCHANGED <<tc1Donated, CHANNEL, tcnt, ocr1a, ocie1a, timerRunning,
                   frameElapsed, framePeriod, framesOk>>
    /\ UNCHANGED halted

\* Servo::new with room for one more slot than MAX_SERVOS
ServoNewOffByOne ==
    /\ MainRunning
    /\ IF ~tc1Donated
       THEN /\ newResult' = "NotInitialized"
            /\ UNCHANGED <<servos, limits, lastWrite, attachedWith, edges, steady>>
       ELSE IF Len(servos) > MAX_SERVOS
       THEN /\ newResult' = "TooManyServos"
            /\ UNCHANGED <<servos, limits, lastWrite, attachedWith, edges, steady>>
       ELSE /\ newResult' = "Ok"
            /\ servos' = Append(servos, [ticks |-> DEFAULT_PULSE_WIDTH,
                                         attached |-> FALSE, pin |-> FALSE])
            /\ limits' = Append(limits, [min |-> 0, max |-> 0])
            /\ lastWrite' = Append(lastWrite, NoWrite)
            /\ attachedWith' = Append(attachedWith, DefaultLimits)
            /\ edges' = Append(edges, <<>>)
            /\ steady' = FALSE
    /\ UNCHANGED <<tc1Donated, CHANNEL, tcnt, ocr1a, ocie1a, timerRunning,
                   frameElapsed, framePeriod, framesOk>>
    /\ UNCHANGED halted

\* Servo::new
ServoNew ==
    /\ MainRunning
    /\ IF ~tc1Donated
       THEN /\ newResult' = "NotInitialized"
            /\ UNCHANGED <<servos, limits, lastWrite, attachedWith, edges, steady>>
       ELSE IF Len(servos) >= MAX_SERVOS
       THEN /\ newResult' = "TooManyServos"
            /\ UNCHANGED <<servos, limits, lastWrite, attachedWith, edges, steady>>
       ELSE /\ newResult' = "Ok"
            /\ servos' = Append(servos, [ticks |-> DEFAULT_PULSE_WIDTH,
                                         attached |-> FALSE, pin |-> FALSE])
            /\ limits' = Append(limits, [min |-> 0, max |-> 0])
            /\ lastWrite' = Append(lastWrite, NoWrite)
            /\ attachedWith' = Append(attachedWith, DefaultLimits)
            /\ edges' = Append(edges, <<>>)
            /\ steady' = FALSE
    /\ UNCHANGED <<tc1Donated, CHANNEL, tcnt, ocr1a, ocie1a, timerRunning,
                   frameElapsed, framePeriod, framesOk>>
    /\ UNCHANGED halted

\* Servo::init_timer: prescaler 8, counter cleared, compare interrupt enabled
init_timer ==
    /\ timerRunning' = TRUE
    /\ tcnt' = 0
    /\ ocie1a' = TRUE
    /\ frameElapsed' = -1

\* Servo::disable_timer
disable_timer == ocie1a' = FALSE

\* Servo::attach_with_limits that initialises the timer on every attach
attachAlwaysInits(i, min, max) ==
    /\ MainRunning
    /\ i \in Slots
    /\ ~servos[i].attached
    /\ init_timer
    /\ servos' = [servos EXCEPT ![i].attached = TRUE]
    /\ limits' = [limits EXCEPT ![i] =
                      [min |-> TruncDiv(WrapI16(MIN_PULSE_WIDTH - min), 4),
                       max |-> TruncDiv(WrapI16(MAX_PULSE_WIDTH - max), 4)]]
    /\ attachedWith' = [attachedWith EXCEPT ![i] = [min |-> min, max |-> max]]
    /\ steady' = FALSE
    /\ UNCHANGED halted
    /\ UNCHANGED <<tc1Donated, CHANNEL, ocr1a, newResult, lastWrite, framePeriod,
                   edges, framesOk>>

\* Servo::attach_with_limits on the detached handle of slot i
attach_with_limits(i, min, max) ==
    /\ MainRunning
    /\ i \in Slots
    /\ ~servos[i].attached
    /\ IF overflowChecks /\ (~InI16(MIN_PULSE_WIDTH - min) \/ ~InI16(MAX_PULSE_WIDTH - max))
       THEN /\ halted' = "main"
            /\ UNCHANGED <<servos, limits, attachedWith, timerRunning, tcnt, ocie1a,
                           frameElapsed, steady>>
       ELSE /\ IF ~is_timer_active(servos)
               THEN init_timer
               ELSE UNCHANGED <<timerRunning, tcnt, ocie1a, frameElapsed>>
            /\ servos' = [servos EXCEPT ![i].attached = TRUE]
            /\ limits' = [limits EXCEPT ![i] =
                              [min |-> TruncDiv(WrapI16(MIN_PULSE_WIDTH - min), 4),
                               max |-> TruncDiv(WrapI16(MAX_PULSE_WIDTH - max), 4)]]
            /\ attachedWith' = [attachedWith EXCEPT ![i] = [min |-> min, max |-> max]]
            /\ steady' = FALSE
            /\ UNCHANGED halted
    /\ UNCHANGED <<tc1Donated, CHANNEL, ocr1a, newResult, lastWrite, framePeriod,
                   edges, framesOk>>

\* Servo::detach that gives the slot of the handle back to the table
detachFreesSlot(i) ==
    /\ MainRunning
    /\ i \in Slots
    /\ servos[i].attached
    /\ LET Without(s) == [k \in 1..(Len(s) - 1) |-> IF k < i THEN s[k] ELSE s[k + 1]]
       IN  /\ servos' = Without(servos)
           /\ limits' = Without(limits)
           /\ lastWrite' = Without(lastWrite)
           /\ attachedWith' = Without(attachedWith)
           /\ edges' = Without(edges)
    /\ IF is_timer_active(servos')
       THEN disable_timer
       ELSE UNCHANGED ocie1a
    /\ steady' = FALSE
    /\ UNCHANGED <<tc1Donated, CHANNEL, tcnt, ocr1a, timerRunning, newResult,
                   frameElapsed, framePeriod, framesOk>>
    /\ UNCHANGED halted

\* Servo::detach on the attached handle of slot i
detach(i) ==
    /\ MainRunning
    /\ i \in Slots
    /\ servos[i].attached
    /\ servos' = [servos EXCEPT ![i].attached = FALSE]
    /\ IF is_timer_active(servos')
       THEN disable_timer
       ELSE UNCHANGED ocie1a
    /\ limits' = [limits EXCEPT ![i] = [min |-> limits[i].max, max |-> limits[i].max]]
    /\ steady' = FALSE
    /\ UNCHANGED <<tc1Donated, CHANNEL, tcnt, ocr1a, timerRunning, newResult, lastWrite,
                   attachedWith, frameElapsed, framePeriod, edges, framesOk>>
    /\ UNCHANGED halted

\* The body of Servo::write_us for slot i: whether it panics (clamp asserts
\* min <= max; a negative value cast to u32 overflows the multiplication) and
\* the u16 it stores otherwise
WriteUs(i, value) ==
    LET lo == servo_min(i)
        hi == servo_max(i)
        t  == Clamp(value, lo, hi) - TRIM_DURATION
    IN  [panic |-> lo > hi \/ (overflowChecks /\ (LimitsOverflow(i) \/ ~InI16(t) \/ t < 0)),
         ticks |-> IF WrapI16(t) >= 0 THEN WrapU16(us_to_ticks(WrapI16(t)))
                   ELSE WrapU16(2 * WrapI16(t))]

\* the stores of a write that always go to the first slot
StoreWriteFirstSlot(i, kind, value, us, panic) ==
    /\ MainRunning
    /\ i \in Slots
    /\ servos[i].attached
    /\ IF panic \/ WriteUs(i, us).panic
       THEN /\ halted' = "main"
            /\ UNCHANGED <<servos, lastWrite>>
       ELSE /\ servos' = [servos EXCEPT ![1].ticks = WriteUs(i, us).ticks]
            /\ lastWrite' = [lastWrite EXCEPT ![i] = [kind |-> kind, value |-> value,
                                                      lo |-> servo_min(i), hi |-> servo_max(i)]]
            /\ UNCHANGED halted
    /\ UNCHANGED <<tc1Donated, limits, CHANNEL, tcnt, ocr1a, ocie1a, timerRunning, newResult,
                   attachedWith, frameElapsed, framePeriod, edges, steady, framesOk>>

\* the stores of a write()/write_us() on slot i that requests value through kind
StoreWrite(i, kind, value, us, panic) ==
    /\ MainRunning
    /\ i \in Slots
    /\ servos[i].attached
    /\ IF panic \/ WriteUs(i, us).panic
       THEN /\ halted' = "main"
            /\ UNCHANGED <<servos, lastWrite>>
       ELSE /\ servos' = [servos EXCEPT ![i].ticks = WriteUs(i, us).ticks]
            /\ lastWrite' = [lastWrite EXCEPT ![i] = [kind |-> kind, value |-> value,
                                                      lo |-> servo_min(i), hi |-> servo_max(i)]]
            /\ UNCHANGED halted
    /\ UNCHANGED <<tc1Donated, limits, CHANNEL, tcnt, ocr1a, ocie1a, timerRunning, newResult,
                   attachedWith, frameElapsed, framePeriod, edges, steady, framesOk>>

\* Servo::write_us on the attached handle of slot i
write_us(i, value) == StoreWrite(i, "us", value, value, FALSE)

\* Servo::write on the attached handle of slot i (value: u8)
write(i, value) ==
    LET m == map(Clamp(value, 0, 180), 0, 180, servo_min(i), servo_max(i))
    IN  StoreWrite(i, "angle", value, m.val, overflowChecks /\ (m.ovf \/ LimitsOverflow(i)))

\* TIMER1_COMPA that leaves the hardware counter alone at a frame start
TIMER1_COMPA_NoReset(lat) ==
    /\ IrqRunning
    /\ ocie1a
    /\ timerRunning
    /\ LET wait     == IF WrapU16(ocr1a - tcnt) = 0 THEN U16Mod ELSE WrapU16(ocr1a - tcnt)
           dt       == wait + lat
           newFrame == CHANNEL < 0
           t        == WrapU16(tcnt + dt)
           el       == IF frameElapsed = -1 THEN -1 ELSE frameElapsed + dt
           low      == CHANNEL + 1      \* the slot of the channel that ends
           lowered  == ~newFrame /\ low \in Slots /\ servos[low].attached
           next     == CHANNEL + 2      \* the slot of the advanced channel
           edges1   == IF newFrame THEN [k \in Slots |-> <<>>]
                       ELSE IF lowered /\ servos[low].pin
                       THEN [edges EXCEPT ![low] = Append(@, "F")]
                       ELSE edges
           servos1  == IF lowered THEN [servos EXCEPT ![low].pin = FALSE] ELSE servos
       IN  /\ IF newFrame
              THEN /\ frameElapsed' = 0
                   /\ framePeriod' = el
                   /\ framesOk' = (framesOk /\ (el = -1 \/ ~steady \/
                          \A k \in Slots :
                              edges[k] = IF servos[k].attached THEN <<"R", "F">> ELSE <<>>))
                   /\ steady' = TRUE
              ELSE /\ frameElapsed' = el
                   /\ framePeriod' = -1
                   /\ UNCHANGED <<framesOk, steady>>
           /\ IF next \in Slots
              THEN IF overflowChecks /\ t + servos1[next].ticks >= U16Mod
                   THEN /\ halted' = "isr"
                        /\ UNCHANGED <<ocr1a, servos, edges, CHANNEL>>
                   ELSE /\ ocr1a' = WrapU16(t + servos1[next].ticks)
                        /\ servos' = IF servos1[next].attached
                                     THEN [servos1 EXCEPT ![next].pin = TRUE]
                                     ELSE servos1
                        /\ edges' = IF servos1[next].attached /\ ~servos1[next].pin
                                    THEN [edges1 EXCEPT ![next] = Append(@, "R")]
                                    ELSE edges1
                        /\ CHANNEL' = CHANNEL + 1
                        /\ UNCHANGED halted
              ELSE /\ ocr1a' = IF t + 4 > us_to_ticks(REFRESH_INTERVAL)
                               THEN WrapU16(us_to_ticks(REFRESH_INTERVAL))
                               ELSE t + 4
                   /\ servos' = servos1
                   /\ edges' = edges1
                   /\ CHANNEL' = -1
                   /\ UNCHANGED halted
           /\ tcnt' = t
    /\ UNCHANGED <<tc1Donated, limits, ocie1a, timerRunning, newResult, lastWrite,
                   attachedWith>>

\* TIMER1_COMPA that ends the high phase without testing the attached flag
TIMER1_COMPA_AnyPin(lat) ==
    /\ IrqRunning
    /\ ocie1a
    /\ timerRunning
    /\ LET wait     == IF WrapU16(ocr1a - tcnt) = 0 THEN U16Mod ELSE WrapU16(ocr1a - tcnt)
           dt       == wait + lat
           newFrame == CHANNEL < 0
           t        == IF newFrame THEN 0 ELSE WrapU16(tcnt + dt)
           el       == IF frameElapsed = -1 THEN -1 ELSE frameElapsed + dt
           low      == CHANNEL + 1      \* the slot of the channel that ends
           lowered  == ~newFrame /\ low \in Slots
           next     == CHANNEL + 2      \* the slot of the advanced channel
           edges1   == IF newFrame THEN [k \in Slots |-> <<>>]
                       ELSE IF lowered /\ servos[low].pin
                       THEN [edges EXCEPT ![low] = Append(@, "F")]
                       ELSE edges
           servos1  == IF lowered THEN [servos EXCEPT ![low].pin = FALSE] ELSE servos
       IN  /\ IF newFrame
              THEN /\ frameElapsed' = 0
                   /\ framePeriod' = el
                   /\ framesOk' = (framesOk /\ (el = -1 \/ ~steady \/
                          \A k \in Slots :
                              edges[k] = IF servos[k].attached THEN <<"R", "F">> ELSE <<>>))
                   /\ steady' = TRUE
              ELSE /\ frameElapsed' = el
                   /\ framePeriod' = -1
                   /\ UNCHANGED <<framesOk, steady>>
           /\ IF next \in Slots
              THEN IF overflowChecks /\ t + servos1[next].ticks >= U16Mod
                   THEN /\ halted' = "isr"
                        /\ UNCHANGED <<ocr1a, servos, edges, CHANNEL>>
                   ELSE /\ ocr1a' = WrapU16(t + servos1[next].ticks)
                        /\ servos' = IF servos1[next].attached
                                     THEN [servos1 EXCEPT ![next].pin = TRUE]
                                     ELSE servos1
                        /\ edges' = IF servos1[next].attached /\ ~servos1[next].pin
                                    THEN [edges1 EXCEPT ![next] = Append(@, "R")]
                                    ELSE edges1
                        /\ CHANNEL' = CHANNEL + 1
                        /\ UNCHANGED halted
              ELSE /\ ocr1a' = IF t + 4 > us_to_ticks(REFRESH_INTERVAL)
                               THEN WrapU16(us_to_ticks(REFRESH_INTERVAL))
                               ELSE t + 4
                   /\ servos' = servos1
                   /\ edges' = edges1
                   /\ CHANNEL' = -1
                   /\ UNCHANGED halted
           /\ tcnt' = t
    /\ UNCHANGED <<tc1Donated, limits, ocie1a, timerRunning, newResult, lastWrite,
                   attachedWith>>

\* TIMER1_COMPA that keeps counting the channel up after the last slot
TIMER1_COMPA_NoWrap(lat) ==
    /\ IrqRunning
    /\ ocie1a
    /\ timerRunning
    /\ LET wait     == IF WrapU16(ocr1a - tcnt) = 0 THEN U16Mod ELSE WrapU16(ocr1a - tcnt)
           dt       == wait + lat
           newFrame == CHANNEL < 0
           t        == IF newFrame THEN 0 ELSE WrapU16(tcnt + dt)
           el       == IF frameElapsed = -1 THEN -1 ELSE frameElapsed + dt
           low      == CHANNEL + 1      \* the slot of the channel that ends
           lowered  == ~newFrame /\ low \in Slots /\ servos[low].attached
           next     == CHANNEL + 2      \* the slot of the advanced channel
           edges1   == IF newFrame THEN [k \in Slots |-> <<>>]
                       ELSE IF lowered /\ servos[low].pin
                       THEN [edges EXCEPT ![low] = Append(@, "F")]
                       ELSE edges
           servos1  == IF lowered THEN [servos EXCEPT ![low].pin = FALSE] ELSE servos
       IN  /\ IF newFrame
              THEN /\ frameElapsed' = 0
                   /\ framePeriod' = el
                   /\ framesOk' = (framesOk /\ (el = -1 \/ ~steady \/
                          \A k \in Slots :
                              edges[k] = IF servos[k].attached THEN <<"R", "F">> ELSE <<>>))
                   /\ steady' = TRUE
              ELSE /\ frameElapsed' = el
                   /\ framePeriod' = -1
                   /\ UNCHANGED <<framesOk, steady>>
           /\ IF next \in Slots
              THEN IF overflowChecks /\ t + servos1[next].ticks >= U16Mod
                   THEN /\ halted' = "isr"
                        /\ UNCHANGED <<ocr1a, servos, edges, CHANNEL>>
                   ELSE /\ ocr1a' = WrapU16(t + servos1[next].ticks)
                        /\ servos' = IF servos1[next].attached
                                     THEN [servos1 EXCEPT ![next].pin = TRUE]
                                     ELSE servos1
                        /\ edges' = IF servos1[next].attached /\ ~servos1[next].pin
                                    THEN [edges1 EXCEPT ![next] = Append(@, "R")]
                                    ELSE edges1
                        /\ CHANNEL' = CHANNEL + 1
                        /\ UNCHANGED halted
              ELSE /\ ocr1a' = IF t + 4 > us_to_ticks(REFRESH_INTERVAL)
                               THEN WrapU16(us_to_ticks(REFRESH_INTERVAL))
                               ELSE t + 4
                   /\ servos' = servos1
                   /\ edges' = edges1
                   /\ CHANNEL' = CHANNEL + 1
                   /\ UNCHANGED halted
           /\ tcnt' = t
    /\ UNCHANGED <<tc1Donated, limits, ocie1a, timerRunning, newResult, lastWrite,
                   attachedWith>>

\* TIMER1_COMPA, run lat timer ticks after the compare match
TIMER1_COMPA(lat) ==
    /\ IrqRunning
    /\ ocie1a
    /\ timerRunning
    /\ LET wait     == IF WrapU16(ocr1a - tcnt) = 0 THEN U16Mod ELSE WrapU16(ocr1a - tcnt)
           dt       == wait + lat
           newFrame == CHANNEL < 0
           t        == IF newFrame THEN 0 ELSE WrapU16(tcnt + dt)
           el       == IF frameElapsed = -1 THEN -1 ELSE frameElapsed + dt
           low      == CHANNEL + 1      \* the slot of the channel that ends
           lowered  == ~newFrame /\ low \in Slots /\ servos[low].attached
           next     == CHANNEL + 2      \* the slot of the advanced channel
           edges1   == IF newFrame THEN [k \in Slots |-> <<>>]
                       ELSE IF lowered /\ servos[low].pin
                       THEN [edges EXCEPT ![low] = Append(@, "F")]
                       ELSE edges
           servos1  == IF lowered THEN [servos EXCEPT ![low].pin = FALSE] ELSE servos
       IN  /\ IF newFrame
              THEN /\ frameElapsed' = 0
                   /\ framePeriod' = el
                   /\ framesOk' = (framesOk /\ (el = -1 \/ ~steady \/
                          \A k \in Slots :
                              edges[k] = IF servos[k].attached THEN <<"R", "F">> ELSE <<>>))
                   /\ steady' = TRUE
              ELSE /\ frameElapsed' = el
                   /\ framePeriod' = -1
                   /\ UNCHANGED <<framesOk, steady>>
           /\ IF next \in Slots
              THEN IF overflowChecks /\ t + servos1[next].ticks >= U16Mod
                   THEN /\ halted' = "isr"
                        /\ UNCHANGED <<ocr1a, servos, edges, CHANNEL>>
                   ELSE /\ ocr1a' = WrapU16(t + servos1[next].ticks)
                        /\ servos' = IF servos1[next].attached
                                     THEN [servos1 EXCEPT ![next].pin = TRUE]
                                     ELSE servos1
                        /\ edges' = IF servos1[next].attached /\ ~servos1[next].pin
                                    THEN [edges1 EXCEPT ![next] = Append(@, "R")]
                                    ELSE edges1
                        /\ CHANNEL' = CHANNEL + 1
                        /\ UNCHANGED halted
              ELSE /\ ocr1a' = IF t + 4 > us_to_ticks(REFRESH_INTERVAL)
                               THEN WrapU16(us_to_ticks(REFRESH_INTERVAL))
                               ELSE t + 4
                   /\ servos' = servos1
                   /\ edges' = edges1
                   /\ CHANNEL' = -1
                   /\ UNCHANGED halted
           /\ tcnt' = t
    /\ UNCHANGED <<tc1Donated, limits, ocie1a, timerRunning, newResult, lastWrite,
                   attachedWith>>

(***************************************************************************)
(* The turret dispatcher: rangefinder/src/turret.rs, with the command      *)
(* mailbox of rangefinder/src/ir.rs.                                       *)
(***************************************************************************)
PITCH_MOVE_SPEED == 8
YAW_MOVE_SPEED == 90
YAW_STOP_SPEED == 90
ROLL_MOVE_SPEED == 90
ROLL_STOP_SPEED == 90
PITCH_MAX == 175
PITCH_MIN == 10
PitchBuilt == 100

LEFT == 8
RIGHT == 90
UP == 82
DOWN == 24
OK == 28
CMD1 == 69
STAR == 22

\* main builds yaw, pitch and roll in this order, so these are their slots
YawSlot == 1
PitchSlot == 2
RollSlot == 3

\* the command codes a decoded frame carries here (CMD1: a reserved keypad code)
CmdCodes == {LEFT, RIGHT, UP, DOWN, OK, STAR, CMD1}

NoCmd == [cmd |-> -1, repeat |-> FALSE]

\* Bound of the turret specification
MaxBusy == 2         \* commands counted while one motion sequence is in progress

\* Builder fields: 0 stands for the marker types NoYaw, NoPitch, NoRoll and
\* NoRangeFinder, a slot number for a held Servo<ServoAttached>, 1 for the
\* held HcSr04
NoTurret == [yaw |-> 0, pitch |-> 0, roll |-> 0, range_finder |-> 0]
BuilderFields == {"yaw", "pitch", "roll", "range_finder"}

\* the builder before Turret::builder(), after a failed step has dropped it,
\* and after Builder::build has taken it
BuilderGone(st) == [st |-> st, yaw |-> 0, pitch |-> 0, roll |-> 0, range_finder |-> 0]

\* Builder::default()
BuilderDefault == [st |-> "open", yaw |-> 0, pitch |-> 0, roll |-> 0, range_finder |-> 0]

\* main before Turret::builder() is called: no builder, no turret
BuilderInit ==
    /\ builder = BuilderGone("none")
    /\ turret = NoTurret

\* the statics and locals of the dispatcher before its first command, the
\* mailbox empty
DispatcherCells ==
    /\ CMD = NoCmd
    /\ pitch_value = PitchBuilt
    /\ turretPc = "idle"
    /\ dispatched = NoCmd
    /\ written = <<>>
    /\ decodeLog = [last |-> NoCmd, busy |-> 0, taken |-> 0]
    /\ fetchPc = "idle"
    /\ fetched = NoCmd
    /\ stored = FALSE

\* the dispatcher before its first command, interrupts enabled
DispatcherInit ==
    /\ DispatcherCells
    /\ irqOff = FALSE

\* the turret as main builds it: yaw, pitch, roll registered in this order
TurretInit ==
    /\ DispatcherInit
    /\ builder = BuilderGone("built")
    /\ turret = [yaw |-> YawSlot, pitch |-> PitchSlot, roll |-> RollSlot, range_finder |-> 1]

\* the log of a command decoded by PCINT0
Decoded(c, r) ==
    decodeLog' = [decodeLog EXCEPT !.last = [cmd |-> c, repeat |-> r],
                                   !.busy = IF turretPc = "idle" \/ @ >= MaxBusy
                                            THEN @ ELSE @ + 1]

\* PCINT0 that stores a command only into an empty mailbox
PCINT0KeepsPending(c, r) ==
    /\ IrqRunning
    /\ CMD' = IF CMD = NoCmd THEN [cmd |-> c, repeat |-> r] ELSE CMD
    /\ Decoded(c, r)
    /\ stored' = TRUE
    /\ UNCHANGED <<pitch_value, turretPc, dispatched, written, fetchPc, fetched, irqOff>>
    /\ UNCHANGED <<halted, servoVars>>

\* PCINT0 on the edge that completes the frame of command c
PCINT0(c, r) ==
    /\ IrqRunning
    /\ CMD' = [cmd |-> c, repeat |-> r]
    /\ Decoded(c, r)
    /\ stored' = TRUE
    /\ UNCHANGED <<pitch_value, turretPc, dispatched, written, fetchPc, fetched, irqOff>>
    /\ UNCHANGED <<halted, servoVars>>

\* a write of value to the handle of slot, the first or a later one of a command
TurretWrite(slot, value, before) ==
    /\ write(slot, value)
    /\ written' = IF halted' = "run" THEN Append(before, <<slot, value>>) ELSE before

\* a branch of the dispatcher that spins the roll actuator instead of writing
\* nothing
NoTurretWriteRolls == TurretWrite(RollSlot, 0, <<>>)

NoTurretWrite ==
    /\ written' = <<>>
    /\ UNCHANGED <<halted, servoVars>>

\* Turret::move_up(1)
move_up ==
    /\ IF pitch_value > PITCH_MIN
       THEN /\ pitch_value' = pitch_value - PITCH_MOVE_SPEED
            /\ TurretWrite(PitchSlot, WrapU8(pitch_value - PITCH_MOVE_SPEED), <<>>)
       ELSE /\ UNCHANGED pitch_value
            /\ NoTurretWrite
    /\ turretPc' = "idle"

\* Turret::move_down(1) without the test against PITCH_MAX
move_downUnbounded ==
    /\ pitch_value' = pitch_value + PITCH_MOVE_SPEED
    /\ TurretWrite(PitchSlot, WrapU8(pitch_value + PITCH_MOVE_SPEED), <<>>)
    /\ turretPc' = "idle"

\* Turret::move_down(1)
move_down ==
    /\ IF pitch_value < PITCH_MAX
       THEN /\ pitch_value' = pitch_value + PITCH_MOVE_SPEED
            /\ TurretWrite(PitchSlot, WrapU8(pitch_value + PITCH_MOVE_SPEED), <<>>)
       ELSE /\ UNCHANGED pitch_value
            /\ NoTurretWrite
    /\ turretPc' = "idle"

\* Turret::move_left(1) up to its first delay
move_left ==
    /\ TurretWrite(YawSlot, WrapU8(YAW_STOP_SPEED + YAW_MOVE_SPEED), <<>>)
    /\ turretPc' = "move_left"
    /\ UNCHANGED pitch_value

\* Turret::move_right(1) up to its first delay
move_right ==
    /\ TurretWrite(RollSlot, WrapU8(YAW_STOP_SPEED - YAW_MOVE_SPEED), <<>>)
    /\ turretPc' = "move_right"
    /\ UNCHANGED pitch_value

\* Turret::fire up to its first delay
fire ==
    /\ TurretWrite(RollSlot, WrapU8(ROLL_STOP_SPEED - ROLL_MOVE_SPEED), <<>>)
    /\ turretPc' = "fire"
    /\ UNCHANGED pitch_value

\* Turret::fire_all up to its first delay
fire_all ==
    /\ TurretWrite(RollSlot, WrapU8(ROLL_STOP_SPEED - ROLL_MOVE_SPEED), <<>>)
    /\ turretPc' = "fire_all"
    /\ UNCHANGED pitch_value

\* Turret::handle_command that ignores every repeated command
handle_commandNoRepeats ==
    /\ MainRunning
    /\ turretPc = "idle"
    /\ CMD # NoCmd
    /\ CMD' = NoCmd
    /\ dispatched' = CMD
    /\ decodeLog' = [decodeLog EXCEPT !.busy = 0, !.taken = decodeLog.busy]
    /\ fetched' = CMD
    /\ stored' = FALSE
    /\ UNCHANGED <<fetchPc, irqOff>>
    /\ CASE CMD.cmd = UP /\ ~CMD.repeat -> move_up
         [] CMD.cmd = DOWN /\ ~CMD.repeat -> move_down
         [] CMD.cmd = LEFT /\ ~CMD.repeat -> move_left
         [] CMD.cmd = RIGHT /\ ~CMD.repeat -> move_right
         [] CMD.cmd = OK /\ ~CMD.repeat   -> fire
         [] CMD.cmd = STAR /\ ~CMD.repeat -> fire_all
         [] OTHER -> /\ NoTurretWrite
                     /\ turretPc' = "idle"
                     /\ UNCHANGED pitch_value

\* Turret::handle_command when the mailbox holds a command: fetch_message
\* takes it, and the match runs up to the first delay of the motion
handle_command ==
    /\ MainRunning
    /\ turretPc = "idle"
    /\ CMD # NoCmd
    /\ CMD' = NoCmd
    /\ dispatched' = CMD
    /\ decodeLog' = [decodeLog EXCEPT !.busy = 0, !.taken = decodeLog.busy]
    /\ fetched' = CMD
    /\ stored' = FALSE
    /\ UNCHANGED <<fetchPc, irqOff>>
    /\ CASE CMD.cmd = UP    -> move_up
         [] CMD.cmd = DOWN  -> move_down
         [] CMD.cmd = LEFT  -> move_left
         [] CMD.cmd = RIGHT -> move_right
         [] CMD.cmd = OK /\ ~CMD.repeat   -> fire
         [] CMD.cmd = STAR /\ ~CMD.repeat -> fire_all
         [] OTHER -> /\ NoTurretWrite
                     /\ turretPc' = "idle"
                     /\ UNCHANGED pitch_value

\* the write that follows the first delay of move_left, move_right, fire and
\* fire_all
stop_move ==
    /\ MainRunning
    /\ turretPc # "idle"
    /\ CASE turretPc = "move_left"  -> TurretWrite(YawSlot, WrapU8(YAW_STOP_SPEED), written)
         [] turretPc = "move_right" -> TurretWrite(RollSlot, WrapU8(YAW_STOP_SPEED), written)
         [] turretPc = "fire"       -> TurretWrite(RollSlot, WrapU8(ROLL_STOP_SPEED), written)
         [] turretPc = "fire_all"   -> TurretWrite(RollSlot, WrapU8(ROLL_STOP_SPEED), written)
    /\ turretPc' = "idle"
    /\ UNCHANGED <<CMD, pitch_value, dispatched, decodeLog, fetchVars>>

\* fetch_message in its steps: interrupt::free clears the interrupt flag,
\* Cell::take reads the cell and then stores None, and the flag is restored
FetchFrame == UNCHANGED <<pitch_value, turretPc, dispatched, written, decodeLog, halted, servoVars>>

\* interrupt::free entered without the interrupt flag being cleared
fetch_enterNoCli ==
    /\ MainRunning
    /\ turretPc = "idle"
    /\ fetchPc = "idle"
    /\ fetchPc' = "read"
    /\ irqOff' = FALSE
    /\ UNCHANGED <<CMD, fetched, stored>>
    /\ FetchFrame

fetch_enter ==
    /\ MainRunning
    /\ turretPc = "idle"
    /\ fetchPc = "idle"
    /\ fetchPc' = "read"
    /\ irqOff' = TRUE
    /\ UNCHANGED <<CMD, fetched, stored>>
    /\ FetchFrame

fetch_read ==
    /\ fetchPc = "read"
    /\ fetched' = CMD
    /\ fetchPc' = "clear"
    /\ UNCHANGED <<CMD, irqOff, stored>>
    /\ FetchFrame

fetch_clear ==
    /\ fetchPc = "clear"
    /\ CMD' = NoCmd
    /\ stored' = FALSE
    /\ fetchPc' = "exit"
    /\ UNCHANGED <<fetched, irqOff>>
    /\ FetchFrame

fetch_exit ==
    /\ fetchPc = "exit"
    /\ irqOff' = FALSE
    /\ fetchPc' = "idle"
    /\ UNCHANGED <<CMD, fetched, stored>>
    /\ FetchFrame

\* Turret::builder()
Turret_builder ==
    /\ MainRunning
    /\ builder.st = "none"
    /\ builder' = BuilderDefault
    /\ UNCHANGED <<turret, halted, servoVars>>

\* Builder::build that does not ask for the roll actuator
buildWithoutRoll ==
    /\ MainRunning
    /\ builder.st = "open"
    /\ \A f \in BuilderFields \ {"roll"} : builder[f] # 0
    /\ turret' = [f \in BuilderFields |-> builder[f]]
    /\ builder' = BuilderGone("built")
    /\ UNCHANGED <<halted, servoVars>>

\* Builder::yaw, Builder::pitch and Builder::roll (f names the field): defined
\* on a builder whose field holds its marker type; Servo::new(pin)? returns
\* the error and drops the builder, otherwise the new handle is attached
\* with the default limits and stored in the field
builder_servo(f) ==
    /\ MainRunning
    /\ builder.st = "open"
    /\ builder[f] = 0
    /\ IF ~tc1Donated \/ Len(servos) >= MAX_SERVOS
       THEN /\ newResult' = IF ~tc1Donated THEN "NotInitialized" ELSE "TooManyServos"
            /\ builder' = BuilderGone("consumed")
            /\ UNCHANGED <<servos, limits, lastWrite, attachedWith, edges, steady,
                           timerRunning, tcnt, ocie1a, frameElapsed>>
       ELSE /\ newResult' = "Ok"
            /\ IF ~is_timer_active(servos)
               THEN init_timer
               ELSE UNCHANGED <<timerRunning, tcnt, ocie1a, frameElapsed>>
            /\ servos' = Append(servos, [ticks |-> DEFAULT_PULSE_WIDTH,
                                         attached |-> TRUE, pin |-> FALSE])
            /\ limits' = Append(limits,
                   [min |-> TruncDiv(WrapI16(MIN_PULSE_WIDTH - MIN_PULSE_WIDTH), 4),
                    max |-> TruncDiv(WrapI16(MAX_PULSE_WIDTH - MAX_PULSE_WIDTH), 4)])
            /\ lastWrite' = Append(lastWrite, NoWrite)
            /\ attachedWith' = Append(attachedWith, DefaultLimits)
            /\ edges' = Append(edges, <<>>)
            /\ steady' = FALSE
            /\ builder' = [builder EXCEPT ![f] = Len(servos) + 1]
    /\ UNCHANGED <<tc1Donated, CHANNEL, ocr1a, framePeriod, framesOk>>
    /\ UNCHANGED <<turret, halted>>

\* Builder::range_finder: defined on a builder holding NoRangeFinder
builder_range_finder ==
    /\ MainRunning
    /\ builder.st = "open"
    /\ builder.range_finder = 0
    /\ builder' = [builder EXCEPT !.range_finder = 1]
    /\ UNCHANGED <<turret, halted, servoVars>>

\* Builder::build: defined on Builder<Yaw, Pitch, Roll, RangeFinder> only
build ==
    /\ MainRunning
    /\ builder.st = "open"
    /\ \A f \in BuilderFields : builder[f] # 0
    /\ turret' = [f \in BuilderFields |-> builder[f]]
    /\ builder' = BuilderGone("built")
    /\ UNCHANGED <<halted, servoVars>>

(***************************************************************************)
(* The ranging driver: src/hc_sr04.rs with the external interrupt 1 of     *)
(* src/interrupt.rs and the clock of rangefinder/src/clock.rs.             *)
(***************************************************************************)
NoTimeout == -1
NotCaptured == <<-1, -1>>
NoResult == [kind |-> "none", d |-> U32Zero]

RangeInit ==
    /\ hcState = "Idle"
    /\ TRIGGER_TIME = U32Zero
    /\ ECHO_TIME = U32Zero
    /\ measurePc = "idle"
    /\ timeout = NoTimeout
    /\ start = U32Zero
    /\ trigger = FALSE
    /\ echoPin = FALSE
    /\ int1Enabled = FALSE
    /\ int1Mode = "Low"
    /\ int1Flag = FALSE
    /\ result = NoResult
    /\ isrTrigger = NotCaptured
    /\ isrEcho = NotCaptured
    /\ pulsed = FALSE
    /\ sawHigh = FALSE
    /\ echoEdges = "none"

\* fugit Instant::checked_duration_since on u32 ticks: None (here NotCaptured)
\* when a is before b, that is when the wrapping difference exceeds u32::MAX / 2
checked_duration_since(a, b) ==
    IF a # b /\ U32Less(<<32767, 65535>>, U32Sub(a, b)) THEN NotCaptured ELSE U32Sub(a, b)

\* AttachHwInterrupt::attach_hw_int for PD3
attach_hw_int(mode) ==
    /\ int1Mode' = mode
    /\ int1Enabled' = TRUE

\* AttachHwInterrupt::detach_hw_int for PD3
detach_hw_int == int1Enabled' = FALSE

\* measure_us(timeout = t) up to the wait loop without the assertion on STATE
measure_us_beginUnchecked(t) ==
    /\ MainRunning
    /\ measurePc = "idle"
    /\ IF NowPanics
       THEN /\ halted' = "main"
            /\ UNCHANGED rangeVars
       ELSE /\ start' = now
            /\ timeout' = t
            /\ TRIGGER_TIME' = U32Zero
            /\ ECHO_TIME' = U32Zero
            /\ hcState' = "Triggered"
            /\ attach_hw_int("Rising")
            /\ measurePc' = "loop"
            /\ isrTrigger' = NotCaptured
            /\ isrEcho' = NotCaptured
            /\ pulsed' = TRUE
            /\ sawHigh' = FALSE
            /\ echoEdges' = "none"
            /\ UNCHANGED <<trigger, echoPin, int1Flag, result, halted>>

\* measure_us(timeout = t) from its entry to the head of the wait loop
measure_us_begin(t) ==
    /\ MainRunning
    /\ measurePc = "idle"
    /\ IF hcState # "Idle" \/ NowPanics
       THEN /\ halted' = "main"
            /\ UNCHANGED rangeVars
       ELSE /\ start' = now
            /\ timeout' = t
            /\ TRIGGER_TIME' = U32Zero
            /\ ECHO_TIME' = U32Zero
            /\ hcState' = "Triggered"
            /\ attach_hw_int("Rising")
            /\ measurePc' = "loop"
            /\ isrTrigger' = NotCaptured
            /\ isrEcho' = NotCaptured
            /\ pulsed' = TRUE
            /\ sawHigh' = FALSE
            /\ echoEdges' = "none"
            /\ UNCHANGED <<trigger, echoPin, int1Flag, result, halted>>

\* the head of the wait loop without the timeout test
loop_checkNoTimeout ==
    /\ MainRunning
    /\ measurePc = "loop"
    /\ IF NowPanics \/ checked_duration_since(now, start) = NotCaptured
       THEN /\ halted' = "main"
            /\ UNCHANGED measurePc
       ELSE /\ measurePc' = "poll_trigger"
            /\ UNCHANGED halted
    /\ UNCHANGED <<hcState, TRIGGER_TIME, ECHO_TIME, timeout, start, trigger, echoPin,
                   int1Enabled, int1Mode, int1Flag, result, isrTrigger, isrEcho>>
    /\ UNCHANGED pulsed
    /\ UNCHANGED sawHigh
    /\ UNCHANGED echoEdges

\* the head of the wait loop: the elapsed time and the timeout check
loop_check ==
    /\ MainRunning
    /\ measurePc = "loop"
    /\ IF NowPanics \/ checked_duration_since(now, start) = NotCaptured
       THEN /\ halted' = "main"
            /\ UNCHANGED measurePc
       ELSE /\ measurePc' =
                 IF timeout # NoTimeout /\ U32Less(U32Of(timeout), checked_duration_since(now, start))
                 THEN "exit" ELSE "poll_trigger"
            /\ UNCHANGED halted
    /\ UNCHANGED <<hcState, TRIGGER_TIME, ECHO_TIME, timeout, start, trigger, echoPin,
                   int1Enabled, int1Mode, int1Flag, result, isrTrigger, isrEcho>>
    /\ UNCHANGED pulsed
    /\ UNCHANGED sawHigh
    /\ UNCHANGED echoEdges

\* the wait loop after delay_us(1) without the test of the trigger cell
poll_triggerUnchecked ==
    /\ MainRunning
    /\ measurePc = "poll_trigger"
    /\ trigger' = (TRIGGER_TIME # U32Zero)
    /\ IF hcState = "Triggered"
       THEN /\ hcState' = "Measuring"
            /\ attach_hw_int("Falling")
       ELSE UNCHANGED <<hcState, int1Mode, int1Enabled>>
    /\ measurePc' = "poll_pin"
    /\ UNCHANGED <<TRIGGER_TIME, ECHO_TIME, timeout, start, echoPin, int1Flag, result,
                   isrTrigger, isrEcho, halted>>
    /\ UNCHANGED pulsed
    /\ UNCHANGED sawHigh
    /\ UNCHANGED echoEdges

\* the wait loop after delay_us(1): the trigger cell is read and the state
\* advanced to Measuring
poll_trigger ==
    /\ MainRunning
    /\ measurePc = "poll_trigger"
    /\ trigger' = (TRIGGER_TIME # U32Zero)
    /\ IF TRIGGER_TIME # U32Zero /\ hcState = "Triggered"
       THEN /\ hcState' = "Measuring"
            /\ attach_hw_int("Falling")
       ELSE UNCHANGED <<hcState, int1Mode, int1Enabled>>
    /\ measurePc' = "poll_pin"
    /\ UNCHANGED <<TRIGGER_TIME, ECHO_TIME, timeout, start, echoPin, int1Flag, result,
                   isrTrigger, isrEcho, halted>>
    /\ UNCHANGED pulsed
    /\ UNCHANGED sawHigh
    /\ UNCHANGED echoEdges

\* the wait loop at echo.is_high()
poll_pin ==
    /\ MainRunning
    /\ measurePc = "poll_pin"
    /\ IF echoPin
       THEN IF NowPanics
            THEN /\ halted' = "main"
                 /\ UNCHANGED <<TRIGGER_TIME, measurePc>>
            ELSE /\ TRIGGER_TIME' = now
                 /\ measurePc' = "loop"
                 /\ UNCHANGED halted
       ELSE /\ measurePc' = "poll_echo"
            /\ UNCHANGED <<TRIGGER_TIME, halted>>
    /\ UNCHANGED <<hcState, ECHO_TIME, timeout, start, trigger, echoPin, int1Enabled,
                   int1Mode, int1Flag, result, isrTrigger, isrEcho>>
    /\ UNCHANGED pulsed
    /\ sawHigh' = (sawHigh \/ echoPin)
    /\ UNCHANGED echoEdges

\* the wait loop at its last check: the echo cell is read
poll_echo ==
    /\ MainRunning
    /\ measurePc = "poll_echo"
    /\ measurePc' = IF trigger /\ ECHO_TIME # U32Zero /\ hcState = "Measuring"
                    THEN "exit" ELSE "loop"
    /\ UNCHANGED <<hcState, TRIGGER_TIME, ECHO_TIME, timeout, start, trigger, echoPin,
                   int1Enabled, int1Mode, int1Flag, result, isrTrigger, isrEcho, halted>>
    /\ UNCHANGED pulsed
    /\ UNCHANGED sawHigh
    /\ UNCHANGED echoEdges

\* measure_us after the wait loop without the store of Idle
measure_us_endKeepsState ==
    /\ MainRunning
    /\ measurePc = "exit"
    /\ detach_hw_int
    /\ result' = IF TRIGGER_TIME = U32Zero THEN [kind |-> "NoTrigger", d |-> U32Zero]
                 ELSE IF ECHO_TIME = U32Zero THEN [kind |-> "NoEcho", d |-> U32Zero]
                 ELSE IF U32Leq(ECHO_TIME, TRIGGER_TIME)
                 THEN [kind |-> "InvalidResult", d |-> U32Zero]
                 ELSE [kind |-> "Ok", d |-> U32Sub(ECHO_TIME, TRIGGER_TIME)]
    /\ measurePc' = "idle"
    /\ UNCHANGED <<hcState, TRIGGER_TIME, ECHO_TIME, timeout, start, trigger, echoPin,
                   int1Mode, int1Flag, isrTrigger, isrEcho, halted>>
    /\ pulsed' = FALSE
    /\ UNCHANGED sawHigh
    /\ UNCHANGED echoEdges

\* measure_us after the wait loop with `echo < trigger` as its third test
measure_us_endLess ==
    /\ MainRunning
    /\ measurePc = "exit"
    /\ detach_hw_int
    /\ hcState' = "Idle"
    /\ result' = IF TRIGGER_TIME = U32Zero THEN [kind |-> "NoTrigger", d |-> U32Zero]
                 ELSE IF ECHO_TIME = U32Zero THEN [kind |-> "NoEcho", d |-> U32Zero]
                 ELSE IF U32Less(ECHO_TIME, TRIGGER_TIME)
                 THEN [kind |-> "InvalidResult", d |-> U32Zero]
                 ELSE [kind |-> "Ok", d |-> U32Sub(ECHO_TIME, TRIGGER_TIME)]
    /\ measurePc' = "idle"
    /\ UNCHANGED <<TRIGGER_TIME, ECHO_TIME, timeout, start, trigger, echoPin, int1Mode,
                   int1Flag, isrTrigger, isrEcho, halted>>
    /\ pulsed' = FALSE
    /\ UNCHANGED sawHigh
    /\ UNCHANGED echoEdges

\* measure_us after the wait loop
measure_us_end ==
    /\ MainRunning
    /\ measurePc = "exit"
    /\ detach_hw_int
    /\ hcState' = "Idle"
    /\ result' = IF TRIGGER_TIME = U32Zero THEN [kind |-> "NoTrigger", d |-> U32Zero]
                 ELSE IF ECHO_TIME = U32Zero THEN [kind |-> "NoEcho", d |-> U32Zero]
                 ELSE IF U32Leq(ECHO_TIME, TRIGGER_TIME)
                 THEN [kind |-> "InvalidResult", d |-> U32Zero]
                 ELSE [kind |-> "Ok", d |-> U32Sub(ECHO_TIME, TRIGGER_TIME)]
    /\ measurePc' = "idle"
    /\ UNCHANGED <<TRIGGER_TIME, ECHO_TIME, timeout, start, trigger, echoPin, int1Mode,
                   int1Flag, isrTrigger, isrEcho, halted>>
    /\ pulsed' = FALSE
    /\ UNCHANGED sawHigh
    /\ UNCHANGED echoEdges

\* the program points of the wait loop of measure_us
WaitPcs == {"loop", "poll_trigger", "poll_pin", "poll_echo"}

\* the timeout of the running call has not yet elapsed
WithinTimeout ==
    \/ timeout = NoTimeout
    \/ /\ checked_duration_since(now, start) # NotCaptured
       /\ U32Leq(checked_duration_since(now, start), U32Of(timeout))

\* the sensor drives the echo pin to the other level; an edge of the
\* configured sense raises the interrupt flag
EchoEdge ==
    /\ echoPin' = ~echoPin
    /\ int1Flag' = (int1Flag \/ (int1Mode = "Rising" /\ ~echoPin)
                             \/ (int1Mode = "Falling" /\ echoPin))
    /\ UNCHANGED <<hcState, TRIGGER_TIME, ECHO_TIME, measurePc, timeout, start, trigger,
                   int1Enabled, int1Mode, result, isrTrigger, isrEcho, halted>>
    /\ UNCHANGED pulsed
    /\ UNCHANGED sawHigh
    /\ echoEdges' =
         IF echoEdges = "none" /\ ~echoPin /\ hcState = "Triggered" /\ int1Enabled
         THEN "rose"
         ELSE IF echoEdges = "rose" /\ echoPin /\ measurePc \in WaitPcs /\ WithinTimeout
         THEN "fell"
         ELSE echoEdges

\* INT1
INT1 ==
    /\ IrqRunning
    /\ int1Enabled
    /\ int1Flag
    /\ int1Flag' = FALSE
    /\ IF hcState = "Idle"
       THEN UNCHANGED <<TRIGGER_TIME, ECHO_TIME, isrTrigger, isrEcho, halted>>
       ELSE IF NowPanics
       THEN /\ halted' = "isr"
            /\ UNCHANGED <<TRIGGER_TIME, ECHO_TIME, isrTrigger, isrEcho>>
       ELSE IF hcState = "Triggered"
       THEN /\ TRIGGER_TIME' = now
            /\ isrTrigger' = now
            /\ UNCHANGED <<ECHO_TIME, isrEcho, halted>>
       ELSE /\ ECHO_TIME' = now
            /\ isrEcho' = now
            /\ UNCHANGED <<TRIGGER_TIME, isrTrigger, halted>>
    /\ UNCHANGED <<hcState, measurePc, timeout, start, trigger, echoPin, int1Enabled,
                   int1Mode, result>>
    /\ UNCHANGED pulsed
    /\ UNCHANGED sawHigh
    /\ UNCHANGED echoEdges

(***************************************************************************)
(* Start-up: rangefinder/src/main.rs up to the main loop, with the         *)
(* handlers that unwrap the statics RECEIVER and TC1.                      *)
(***************************************************************************)
StartTicks == 2      \* TIMER0_COMPA interrupts explored by the start-up specification

\* the statements of main between interrupt::disable() and interrupt::enable()
StartupPcs == {"clock_start", "attach_pc_int", "init_receiver", "donate_tc1", "builder",
               "range_finder", "yaw", "pitch", "roll", "build", "enable"}

\* the processor after reset: the global interrupt flag cleared, no interrupt
\* source enabled, RECEIVER = None
MainReset ==
    /\ mainPc = "disable"
    /\ RECEIVER = FALSE
    /\ pcie0 = FALSE
    /\ ocie0a = FALSE

\* what a statement of main that touches no servo and no builder state leaves alone
MainFrame == UNCHANGED <<buildVars, halted, clockVars, servoVars, rangeVars, builderVars,
                         CMD, pitch_value, turretPc, dispatched, written, decodeLog,
                         fetchPc, fetched, stored>>

\* what the builder statements of main leave alone besides their own frame
BuilderFrame == UNCHANGED <<buildVars, clockVars, turretVars, rangeVars, RECEIVER, pcie0,
                            ocie0a>>

\* avr_device::interrupt::disable()
interrupt_disable ==
    /\ MainRunning
    /\ mainPc = "disable"
    /\ irqOff' = TRUE
    /\ mainPc' = "clock_start"
    /\ UNCHANGED <<RECEIVER, pcie0, ocie0a>>
    /\ MainFrame

\* CLOCK.start(dp.TC0)
CLOCK_start ==
    /\ MainRunning
    /\ mainPc = "clock_start"
    /\ ocie0a' = TRUE
    /\ mainPc' = "attach_pc_int"
    /\ UNCHANGED <<RECEIVER, pcie0, irqOff>>
    /\ MainFrame

\* pins.d9.attach_pc_int(&dp.EXINT)
attach_pc_int ==
    /\ MainRunning
    /\ mainPc = "attach_pc_int"
    /\ pcie0' = TRUE
    /\ mainPc' = "init_receiver"
    /\ UNCHANGED <<RECEIVER, ocie0a, irqOff>>
    /\ MainFrame

\* init_receiver that builds the receiver and does not store it
init_receiverUnstored ==
    /\ MainRunning
    /\ mainPc = "init_receiver"
    /\ mainPc' = "donate_tc1"
    /\ UNCHANGED <<RECEIVER, pcie0, ocie0a, irqOff>>
    /\ MainFrame

\* init_receiver(pins.d9)
init_receiver ==
    /\ MainRunning
    /\ mainPc = "init_receiver"
    /\ RECEIVER' = TRUE
    /\ mainPc' = "donate_tc1"
    /\ UNCHANGED <<pcie0, ocie0a, irqOff>>
    /\ MainFrame

\* servo::donate_tc1(dp.TC1) and the builder chain of main, statement by statement
main_builder ==
    /\ \/ mainPc = "donate_tc1" /\ donate_tc1 /\ mainPc' = "builder" /\ UNCHANGED builderVars
       \/ mainPc = "builder" /\ Turret_builder /\ mainPc' = "range_finder"
       \/ mainPc = "range_finder" /\ builder_range_finder /\ mainPc' = "yaw"
       \/ mainPc = "yaw" /\ builder_servo("yaw") /\ mainPc' = "pitch"
       \/ mainPc = "pitch" /\ builder_servo("pitch") /\ mainPc' = "roll"
       \/ mainPc = "roll" /\ builder_servo("roll") /\ mainPc' = "build"
       \/ mainPc = "build" /\ build /\ mainPc' = "enable"
    /\ BuilderFrame

\* avr_device::interrupt::enable()
interrupt_enable ==
    /\ MainRunning
    /\ mainPc = "enable"
    /\ irqOff' = FALSE
    /\ mainPc' = "loop"
    /\ UNCHANGED <<RECEIVER, pcie0, ocie0a>>
    /\ MainFrame

\* the entry of PCINT0: RECEIVER.as_mut().unwrap(), then the handler body
PCINT0_entry(c, r) ==
    /\ IrqRunning
    /\ ~irqOff
    /\ pcie0
    /\ IF RECEIVER
       THEN PCINT0(c, r)
       ELSE /\ halted' = "isr"
            /\ UNCHANGED <<turretVars, servoVars>>
    /\ UNCHANGED <<buildVars, clockVars, rangeVars, builderVars, startVars>>

\* the entry of TIMER1_COMPA: TC1.as_ref().unwrap(), then the handler body
TIMER1_COMPA_entry(lat) ==
    /\ IrqRunning
    /\ ~irqOff
    /\ ocie1a
    /\ timerRunning
    /\ IF tc1Donated
       THEN TIMER1_COMPA(lat)
       ELSE /\ halted' = "isr"
            /\ UNCHANGED servoVars
    /\ UNCHANGED <<buildVars, clockVars, turretVars, rangeVars, builderVars, startVars>>

\* TIMER0_COMPA once the clock interrupt is enabled
TIMER0_COMPA_entry ==
    /\ ~irqOff
    /\ ocie0a
    /\ nTicks < StartTicks
    /\ TIMER0_COMPA
    /\ ClockOnly

\* The servo API called from the main context while global interrupts are
\* disabled (as main does until the turret is built).
ServoApiNext ==
    \/ donate_tc1 /\ ServoOnly
    \/ Len(servos) < RegBound /\ ServoNew /\ ServoOnly
    \/ \E i \in 1..RegBound : \E l \in AttachLimits :
          attach_with_limits(i, l[1], l[2]) /\ ServoOnly
    \/ \E i \in 1..RegBound : detach(i) /\ ServoOnly
    \/ \E i \in 1..RegBound : \E v \in WriteAngles : write(i, v) /\ ServoOnly
    \/ \E i \in 1..RegBound : \E v \in WriteMicros : write_us(i, v) /\ ServoOnly

ClockFixed ==
    /\ part = 0
    /\ counter = U32Zero
    /\ plainCounter = U32Zero
    /\ nTicks = 0
    /\ lastNow = U32Zero
    /\ sinceRead = 0
    /\ foldSinceRead = FALSE

ServoApiInit == BuildInit /\ ClockFixed /\ ServoInit /\ DispatcherInit /\ BuilderInit /\ RangeInit

ServoApiSpec == ServoApiInit /\ [][ServoApiNext]_vars

\* The multiplexer running: between one and FrameSlots actuators were
\* registered, at least one of them attached with the default limits (which
\* initialised timer 1), and interrupts were then enabled.
FrameSlots == 2
FrameAngles == {180}     \* write(value) while the multiplexer runs
FrameMicros == {1500}    \* write_us(value) while the multiplexer runs

FrameInit ==
    /\ BuildInit
    /\ ClockFixed
    /\ DispatcherInit
    /\ BuilderInit
    /\ RangeInit
    /\ tc1Donated = TRUE
    /\ \E n \in 1..FrameSlots : \E att \in [1..n -> BOOLEAN] :
          /\ \E k \in 1..n : att[k]
          /\ servos = [k \in 1..n |-> [ticks |-> DEFAULT_PULSE_WIDTH,
                                       attached |-> att[k], pin |-> FALSE]]
          /\ limits = [k \in 1..n |-> [min |-> 0, max |-> 0]]
          /\ lastWrite = [k \in 1..n |-> NoWrite]
          /\ attachedWith = [k \in 1..n |-> DefaultLimits]
          /\ edges = [k \in 1..n |-> <<>>]
    /\ CHANNEL = 0
    /\ tcnt = 0
    /\ ocr1a = 0
    /\ ocie1a = TRUE
    /\ timerRunning = TRUE
    /\ newResult = "Ok"
    /\ frameElapsed = -1
    /\ framePeriod = -1
    /\ steady = TRUE
    /\ framesOk = TRUE

FrameNext ==
    \/ \E lat \in Latencies : TIMER1_COMPA(lat) /\ ServoOnly
    \/ \E i \in 1..FrameSlots : \E v \in FrameAngles : write(i, v) /\ ServoOnly
    \/ \E i \in 1..FrameSlots : \E v \in FrameMicros : write_us(i, v) /\ ServoOnly

FrameSpec == FrameInit /\ [][FrameNext]_vars

\* One actuator attached with the default limits, written with every angle.
WriteInit ==
    /\ BuildInit
    /\ ClockFixed
    /\ DispatcherInit
    /\ BuilderInit
    /\ RangeInit
    /\ tc1Donated = TRUE
    /\ servos = <<[ticks |-> DEFAULT_PULSE_WIDTH, attached |-> TRUE, pin |-> FALSE]>>
    /\ limits = <<[min |-> 0, max |-> 0]>>
    /\ lastWrite = <<NoWrite>>
    /\ attachedWith = <<DefaultLimits>>
    /\ edges = << <<>> >>
    /\ CHANNEL = 0
    /\ tcnt = 0
    /\ ocr1a = 0
    /\ ocie1a = TRUE
    /\ timerRunning = TRUE
    /\ newResult = "Ok"
    /\ frameElapsed = -1
    /\ framePeriod = -1
    /\ steady = TRUE
    /\ framesOk = TRUE

WriteNext ==
    \/ \E v \in 0..255 : write(1, v) /\ ServoOnly
    \/ \E v \in WriteMicros : write_us(1, v) /\ ServoOnly

WriteSpec == WriteInit /\ [][WriteNext]_vars

\* The main loop after start-up: the three actuators attached with the
\* default limits, commands arriving while the loop dispatches them.
TurretSpecInit ==
    /\ BuildInit
    /\ ClockFixed
    /\ TurretInit
    /\ RangeInit
    /\ tc1Donated = TRUE
    /\ servos = [k \in 1..3 |-> [ticks |-> DEFAULT_PULSE_WIDTH,
                                 attached |-> TRUE, pin |-> FALSE]]
    /\ limits = [k \in 1..3 |-> [min |-> 0, max |-> 0]]
    /\ lastWrite = [k \in 1..3 |-> NoWrite]
    /\ attachedWith = [k \in 1..3 |-> DefaultLimits]
    /\ edges = [k \in 1..3 |-> <<>>]
    /\ CHANNEL = 0
    /\ tcnt = 0
    /\ ocr1a = 0
    /\ ocie1a = TRUE
    /\ timerRunning = TRUE
    /\ newResult = "Ok"
    /\ frameElapsed = -1
    /\ framePeriod = -1
    /\ steady = TRUE
    /\ framesOk = TRUE

TurretNext ==
    \/ \E c \in CmdCodes : \E r \in BOOLEAN : PCINT0(c, r) /\ TurretOnly
    \/ handle_command /\ TurretOnly
    \/ stop_move /\ TurretOnly

TurretSpec == TurretSpecInit /\ [][TurretNext]_vars

\* Ranging: measurements with and without a timeout while the clock ticks
\* and the sensor drives the echo pin.  The modelled clock stops after
\* RangeTicks ticks; a measurement with a timeout begins only while the clock
\* can still run past that timeout.
RangeTicks == 5
Timeouts == {NoTimeout, 0, 2}

RangingInit == BuildInit /\ ClockFixed /\ ServoInit /\ DispatcherInit /\ BuilderInit /\ RangeInit

RangeTick == nTicks < RangeTicks /\ TIMER0_COMPA /\ ClockOnly

WaitLoop ==
    \/ loop_check /\ RangeOnly
    \/ poll_trigger /\ RangeOnly
    \/ poll_pin /\ RangeOnly
    \/ poll_echo /\ RangeOnly
    \/ measure_us_end /\ RangeOnly

RangingNext ==
    \/ \E t \in Timeouts :
          /\ t # NoTimeout => nTicks + t < RangeTicks
          /\ measure_us_begin(t) /\ RangeOnly
    \/ WaitLoop
    \/ EchoEdge /\ RangeOnly
    \/ INT1 /\ RangeOnly
    \/ RangeTick

\* the main context keeps running and the clock keeps ticking
RangingSpec ==
    RangingInit /\ [][RangingNext]_vars /\ WF_vars(WaitLoop) /\ WF_vars(RangeTick)

\* The return of measure_us for the timestamps the wait loop can leave in
\* the two cells, among them 0, equal values and values on both sides of the
\* 32-bit wrap.
CellValues ==
    {U32Zero, U32Of(5), U32Of(90), U32Of(100), U32Of(130), <<U16Mod - 1, U16Mod - 10>>}

ResultInit ==
    /\ BuildInit
    /\ ClockFixed
    /\ ServoInit
    /\ DispatcherInit
    /\ BuilderInit
    /\ hcState \in {"Triggered", "Measuring"}
    /\ TRIGGER_TIME \in CellValues
    /\ ECHO_TIME \in CellValues
    /\ measurePc = "exit"
    /\ timeout = NoTimeout
    /\ start = U32Zero
    /\ trigger = (TRIGGER_TIME # U32Zero)
    /\ echoPin = FALSE
    /\ int1Enabled = TRUE
    /\ int1Mode = IF hcState = "Triggered" THEN "Rising" ELSE "Falling"
    /\ int1Flag = FALSE
    /\ result = NoResult
    /\ isrTrigger = NotCaptured
    /\ isrEcho = NotCaptured
    /\ pulsed = TRUE
    /\ sawHigh = FALSE
    /\ echoEdges = "none"

ResultNext == measure_us_end /\ RangeOnly

ResultSpec == ResultInit /\ [][ResultNext]_vars

\* The entry of measure_us for every value of the global state: besides a
\* call in state Idle, a call entered from a second context while a
\* measurement is in flight (state Triggered or Measuring, the cells as the
\* measurement in flight left them).
EntryInit ==
    /\ BuildInit
    /\ ClockFixed
    /\ ServoInit
    /\ DispatcherInit
    /\ BuilderInit
    /\ hcState \in {"Idle", "Triggered", "Measuring"}
    /\ TRIGGER_TIME \in CellValues
    /\ ECHO_TIME \in CellValues
    /\ measurePc = "idle"
    /\ timeout = NoTimeout
    /\ start = U32Zero
    /\ trigger = FALSE
    /\ echoPin = FALSE
    /\ int1Enabled = (hcState # "Idle")
    /\ int1Mode = IF hcState = "Measuring" THEN "Falling" ELSE "Rising"
    /\ int1Flag = FALSE
    /\ result = NoResult
    /\ isrTrigger = NotCaptured
    /\ isrEcho = NotCaptured
    /\ pulsed = FALSE
    /\ sawHigh = FALSE
    /\ echoEdges = "none"

EntryNext == \E t \in Timeouts : measure_us_begin(t) /\ RangeOnly

EntrySpec == EntryInit /\ [][EntryNext]_vars

\* Registration up to and beyond the capacity of the slot table, with the
\* first CapAttach handles attached and detached in between.
CapAttach == 2

CapacityNext ==
    \/ donate_tc1 /\ ServoOnly
    \/ ServoNew /\ ServoOnly
    \/ \E i \in 1..CapAttach : \E l \in AttachLimits :
          attach_with_limits(i, l[1], l[2]) /\ ServoOnly
    \/ \E i \in 1..CapAttach : detach(i) /\ ServoOnly

CapacitySpec == ServoApiInit /\ [][CapacityNext]_vars

\* One registered actuator attached with several limit pairs (min <= max,
\* both positive) and written with pulse widths around each limit and at the
\* ends of the i16 range.
ClampLimits == {<<MIN_PULSE_WIDTH, MAX_PULSE_WIDTH>>, <<600, 2300>>, <<546, 2399>>,
                <<1000, 2000>>}
ClampMicros == {-32768, -1, 0, 1500, 32767} \cup (540..604) \cup (996..1004)
                  \cup (1996..2004) \cup (2296..2404)

ClampInit ==
    /\ BuildInit
    /\ ClockFixed
    /\ DispatcherInit
    /\ BuilderInit
    /\ RangeInit
    /\ tc1Donated = TRUE
    /\ servos = <<[ticks |-> DEFAULT_PULSE_WIDTH, attached |-> FALSE, pin |-> FALSE]>>
    /\ limits = <<[min |-> 0, max |-> 0]>>
    /\ lastWrite = <<NoWrite>>
    /\ attachedWith = <<DefaultLimits>>
    /\ edges = << <<>> >>
    /\ CHANNEL = 0
    /\ tcnt = 0
    /\ ocr1a = 0
    /\ ocie1a = FALSE
    /\ timerRunning = FALSE
    /\ newResult = "Ok"
    /\ frameElapsed = -1
    /\ framePeriod = -1
    /\ steady = FALSE
    /\ framesOk = TRUE

ClampNext ==
    \/ \E l \in ClampLimits : attach_with_limits(1, l[1], l[2]) /\ ServoOnly
    \/ detach(1) /\ ServoOnly
    \/ \E v \in ClampMicros : write_us(1, v) /\ ServoOnly

ClampSpec == ClampInit /\ [][ClampNext]_vars

\* The mailbox alone: PCINT0, which the hardware runs only while the global
\* interrupt flag is set, against the steps of fetch_message.
MailboxNext ==
    \/ \E c \in CmdCodes : \E r \in BOOLEAN : ~irqOff /\ PCINT0(c, r) /\ TurretOnly
    \/ fetch_enter /\ TurretOnly
    \/ fetch_read /\ TurretOnly
    \/ fetch_clear /\ TurretOnly
    \/ fetch_exit /\ TurretOnly

MailboxSpec == TurretSpecInit /\ [][MailboxNext]_vars

\* Registration up to the capacity and beyond, with up to IndepAttached of
\* the handles attached and written.
IndepAttached == 2
IndepAngles == {0}
IndepMicros == {2000}

IndepNext ==
    \/ donate_tc1 /\ ServoOnly
    \/ ServoNew /\ ServoOnly
    \/ \E i \in 1..MAX_SERVOS :
          /\ Cardinality({k \in Slots : servos[k].attached}) < IndepAttached
          /\ attach_with_limits(i, MIN_PULSE_WIDTH, MAX_PULSE_WIDTH)
          /\ ServoOnly
    \/ \E i \in 1..MAX_SERVOS : \E v \in IndepAngles : write(i, v) /\ ServoOnly
    \/ \E i \in 1..MAX_SERVOS : \E v \in IndepMicros : write_us(i, v) /\ ServoOnly

IndepSpec == ServoApiInit /\ [][IndepNext]_vars

\* Start-up: the builder steps in any order, before or after the hand-over of
\* the timer, next to registrations by other code.
BuilderNext ==
    \/ donate_tc1 /\ ServoOnly
    \/ ServoNew /\ ServoOnly
    \/ Turret_builder /\ BuilderOnly
    \/ \E f \in {"yaw", "pitch", "roll"} : builder_servo(f) /\ BuilderOnly
    \/ builder_range_finder /\ BuilderOnly
    \/ build /\ BuilderOnly

BuilderSpec == ServoApiInit /\ [][BuilderNext]_vars

\* The clock type instantiated with const parameters around the accepted
\* range, and with products that overflow u32.
Khzs == (0..64) \cup {250, 2000, 16000, 16001, 4194, 4195}
Prescales == {0, 1, 2, 8, 64, 256, 1024}

CompareInit ==
    /\ ProfileInit
    /\ clockCfg \in [khz : Khzs, prescale : Prescales]
    /\ clockBuild = [st |-> "source", top |-> 0, freq |-> 0]
    /\ ClockFixed
    /\ ServoInit
    /\ DispatcherInit
    /\ BuilderInit
    /\ RangeInit

CompareNext == compile

CompareSpec == CompareInit /\ [][CompareNext]_vars

\* Start values of the main counter for the fold step: after construction, and
\* the last multiple of 251 below 2^32 (the value before the first wrap).
FoldStarts == {U32Zero, <<U16Mod - 1, U16Mod - 123>>}

FoldInit ==
    /\ part = 0
    /\ counter \in FoldStarts
    /\ plainCounter = counter
    /\ nTicks = 0
    /\ lastNow = counter
    /\ sinceRead = 0
    /\ foldSinceRead = FALSE

FoldNext == TIMER0_COMPA /\ ClockOnly

FoldSpecInit == BuildInit /\ FoldInit /\ ServoInit /\ DispatcherInit /\ BuilderInit /\ RangeInit

FoldSpec == FoldSpecInit /\ [][FoldNext]_vars

\* The servo API interleaved with the multiplexer: up to MuxSlots actuators
\* are registered, attached, written and detached while TIMER1_COMPA runs
\* whenever timer 1 is counting with its compare interrupt enabled.
MuxSlots == 2
MuxMicros == {1000}

MuxNext ==
    \/ donate_tc1 /\ ServoOnly
    \/ Len(servos) < MuxSlots /\ ServoNew /\ ServoOnly
    \/ \E i \in 1..MuxSlots : attach_with_limits(i, MIN_PULSE_WIDTH, MAX_PULSE_WIDTH) /\ ServoOnly
    \/ \E i \in 1..MuxSlots : detach(i) /\ ServoOnly
    \/ \E i \in 1..MuxSlots : \E v \in MuxMicros : write_us(i, v) /\ ServoOnly
    \/ TIMER1_COMPA(0) /\ ServoOnly

MuxSpec == ServoApiInit /\ [][MuxNext]_vars

\* Registration up to the capacity and beyond, with the first CapAttach
\* handles attached, written and detached in between.
SlotNext ==
    \/ CapacityNext
    \/ \E i \in 1..CapAttach : \E v \in MuxMicros : write_us(i, v) /\ ServoOnly

SlotSpec == ServoApiInit /\ [][SlotNext]_vars

\* main from reset to its loop, with the interrupt handlers
StartupInit ==
    /\ overflowChecks \in BOOLEAN
    /\ halted = "run"
    /\ clockCfg = [khz |-> ClockKhz, prescale |-> ClockPrescale]
    /\ clockBuild = ClockType(ClockKhz, ClockPrescale)
    /\ MainReset
    /\ ClockFixed
    /\ ServoInit
    /\ DispatcherCells
    /\ irqOff = TRUE
    /\ BuilderInit
    /\ RangeInit

StartupNext ==
    \/ interrupt_disable
    \/ CLOCK_start
    \/ attach_pc_int
    \/ init_receiver
    \/ main_builder
    \/ interrupt_enable
    \/ \E c \in CmdCodes : \E r \in BOOLEAN : PCINT0_entry(c, r)
    \/ TIMER1_COMPA_entry(0)
    \/ TIMER0_COMPA_entry

StartupSpec == StartupInit /\ [][StartupNext]_vars

ClockNext ==
    \/ TIMER0_COMPA /\ ClockOnly
    \/ NowRead /\ ClockOnly

ClockSpecInit == BuildInit /\ ClockInit /\ ServoInit /\ DispatcherInit /\ BuilderInit /\ RangeInit

ClockSpec == ClockSpecInit /\ [][ClockNext]_vars

(***************************************************************************)
(* C1: successive now() values are non-decreasing modulo the 32-bit        *)
(* wraparound, and across a window of k ticks that contains no folding     *)
(* tick now() has increased by exactly k.                                  *)
(***************************************************************************)
C1_NowMonotone ==
    /\ U32Sub(now, lastNow)[1] < 32768
    /\ U32Leq(U32Sub(now, lastNow), U32Of(sinceRead))
    /\ ~foldSinceRead => now = U32Add(lastNow, U32Of(sinceRead))

C1_Witness ==
    /\ sinceRead >= 3
    /\ ~foldSinceRead
    /\ now = U32Add(lastNow, U32Of(sinceRead))
    /\ U32Less(now, lastNow)

(***************************************************************************)
(* C2: now() increases by one on every tick interrupt, the folding tick    *)
(* included: after the same tick sequence it equals the plain counter.     *)
(***************************************************************************)
C2_NowCountsEveryTick == now = plainCounter

(***************************************************************************)
(* C3: the handler run that ends a frame schedules the next compare event  *)
(* at the 20 ms boundary (40,000 ticks after the frame start) while the    *)
(* counter is more than the 4-tick margin before it, and at counter + 4    *)
(* only at or beyond it; so no frame is shorter than 20 ms.                *)
(***************************************************************************)
RefreshTicks == us_to_ticks(REFRESH_INTERVAL)

C3_FrameBoundary ==
    /\ CHANNEL = -1 =>
          ocr1a = IF tcnt + 4 < RefreshTicks THEN RefreshTicks ELSE WrapU16(tcnt + 4)
    /\ framePeriod # -1 => framePeriod >= RefreshTicks

(***************************************************************************)
(* C4: every frame gives each attached actuator one rising and then one    *)
(* falling edge; the compare event that ends a high phase is scheduled the *)
(* actuator's stored ticks after the counter read at the rising edge; and  *)
(* the pulse that follows a write()/write_us() has a high phase within one *)
(* tick of the requested width.                                            *)
(***************************************************************************)
\* the pulse width in microseconds a write()/write_us() request asks for
RequestedUs(w) ==
    IF w.kind = "angle"
    THEN w.lo + (Clamp(w.value, 0, 180) * (w.hi - w.lo)) \div 180
    ELSE Clamp(w.value, w.lo, w.hi)

Abs(x) == IF x < 0 THEN -x ELSE x

\* this step is a handler run that begins the high phase of slot k
BeginsPulse(k) == CHANNEL' # CHANNEL /\ CHANNEL' = k - 1 /\ k \in Slots

C4_OnePulsePerFrame == framesOk

C4_ScheduledAtStoredTicks ==
    [][\A k \in Slots : BeginsPulse(k) => ocr1a' = WrapU16(tcnt' + servos[k].ticks)]_vars

C4_WriteUsReflected ==
    [][\A k \in Slots : BeginsPulse(k) /\ lastWrite[k].kind = "us" =>
          Abs(WrapU16(ocr1a' - tcnt') - us_to_ticks(RequestedUs(lastWrite[k]))) <= 1]_vars

C4_PulseGeneration ==
    [][/\ framesOk'
       /\ \A k \in Slots : BeginsPulse(k) =>
             /\ ocr1a' = WrapU16(tcnt' + servos[k].ticks)
             /\ lastWrite[k].kind # "none" =>
                   Abs(WrapU16(ocr1a' - tcnt') - us_to_ticks(RequestedUs(lastWrite[k]))) <= 1
      ]_vars

(***************************************************************************)
(* C5: with the default limits write(value), 0 <= value <= 180, stores the *)
(* ticks of 544 + value * (2400 - 544) / 180 microseconds.                 *)
(***************************************************************************)
C5_WriteStoresMappedWidth ==
    \A k \in Slots :
        (/\ lastWrite[k].kind = "angle"
         /\ lastWrite[k].value <= 180
         /\ lastWrite[k].lo = MIN_PULSE_WIDTH
         /\ lastWrite[k].hi = MAX_PULSE_WIDTH)
        => servos[k].ticks = us_to_ticks(MIN_PULSE_WIDTH +
               (lastWrite[k].value * (MAX_PULSE_WIDTH - MIN_PULSE_WIDTH)) \div 180)

(***************************************************************************)
(* C6: detach() clears the attached flag of its own slot only, and after   *)
(* every attach()/detach() the timer-1 compare interrupt is enabled if and *)
(* only if at least one slot is attached.                                  *)
(***************************************************************************)
C6_DetachClearsOwnFlag ==
    [][\A i \in Slots : servos[i].attached /\ ~servos'[i].attached =>
          \A k \in Slots \ {i} : servos'[k] = servos[k]]_vars

C6_TimerIffAttached ==
    [][/\ \A i \in Slots : servos[i].attached /\ ~servos'[i].attached =>
             \A k \in Slots \ {i} : servos'[k] = servos[k]
       /\ ocie1a' <=> is_timer_active(servos')]_vars

(***************************************************************************)
(* C7: from the built turret (pitch position 100) the pitch position stays *)
(* within PITCH_MIN (10) .. PITCH_MAX (175) after every dispatched command.*)
(***************************************************************************)
C7_PitchWithinLimits == PITCH_MIN <= pitch_value /\ pitch_value <= PITCH_MAX

(***************************************************************************)
(* C8: a dispatched LEFT or RIGHT writes to the yaw actuator only, first   *)
(* stop + move (LEFT) or stop - move (RIGHT) and then the stop value, and  *)
(* leaves the pitch and roll slots and the pitch position unchanged.       *)
(***************************************************************************)
SpinValue(c) ==
    IF c = LEFT THEN YAW_STOP_SPEED + YAW_MOVE_SPEED ELSE YAW_STOP_SPEED - YAW_MOVE_SPEED

C8_LeftRightWriteYawOnly ==
    [][dispatched'.cmd \in {LEFT, RIGHT} /\ written' # written =>
          /\ servos'[PitchSlot] = servos[PitchSlot]
          /\ servos'[RollSlot] = servos[RollSlot]
          /\ pitch_value' = pitch_value
          /\ \/ written' = << <<YawSlot, SpinValue(dispatched'.cmd)>> >>
             \/ written' = << <<YawSlot, SpinValue(dispatched'.cmd)>>,
                              <<YawSlot, YAW_STOP_SPEED>> >>]_vars

\* the same for LEFT alone
C8_LeftWritesYawOnly ==
    [][dispatched'.cmd = LEFT /\ written' # written =>
          /\ servos'[PitchSlot] = servos[PitchSlot]
          /\ servos'[RollSlot] = servos[RollSlot]
          /\ pitch_value' = pitch_value
          /\ \/ written' = << <<YawSlot, SpinValue(LEFT)>> >>
             \/ written' = << <<YawSlot, SpinValue(LEFT)>>, <<YawSlot, YAW_STOP_SPEED>> >>]_vars

(***************************************************************************)
(* C9: when measure_us returns Ok(d), d is the tick INT1 stored at the     *)
(* falling edge (state Measuring) minus the tick INT1 stored at the rising *)
(* edge (state Triggered); and once INT1 has stored the trigger time,      *)
(* nothing but INT1 modifies the trigger cell during that measurement.     *)
(***************************************************************************)
C9_ResultFromIsrCaptures ==
    [][/\ (measurePc = "exit" /\ result'.kind = "Ok") =>
             /\ isrTrigger # NotCaptured
             /\ isrEcho # NotCaptured
             /\ result'.d = U32Sub(isrEcho, isrTrigger)
       /\ (measurePc # "idle" /\ isrTrigger # NotCaptured /\ isrTrigger' = isrTrigger) =>
             TRIGGER_TIME' = TRIGGER_TIME]_vars

\* the first half alone: the value of an Ok result
C9_OkValue ==
    [][(measurePc = "exit" /\ result'.kind = "Ok") =>
             /\ isrTrigger # NotCaptured
             /\ isrEcho # NotCaptured
             /\ result'.d = U32Sub(isrEcho, isrTrigger)]_vars

(***************************************************************************)
(* C10: every call of measure_us eventually returns with the ranging state *)
(* Idle again, whatever the echo pin does and whatever timeout was passed, *)
(* provided the clock keeps ticking.                                       *)
(***************************************************************************)
C10_MeasureReturns == (measurePc # "idle") ~> (measurePc = "idle" /\ hcState = "Idle")

\* the same for the calls that pass Some(timeout)
C10_TimedMeasureReturns ==
    (measurePc # "idle" /\ timeout # NoTimeout) ~> (measurePc = "idle" /\ hcState = "Idle")

(***************************************************************************)
(* C11: measure_us returns NoTrigger when the trigger cell holds no        *)
(* timestamp, otherwise NoEcho when the echo cell holds none, otherwise    *)
(* InvalidResult when echo <= trigger, otherwise Ok(echo - trigger); a     *)
(* returned duration is at least one tick and is the unwrapped difference. *)
(***************************************************************************)
C11_ResultClassification ==
    [][measurePc = "exit" /\ measurePc' = "idle" =>
          /\ result'.kind = "NoTrigger" <=> TRIGGER_TIME = U32Zero
          /\ result'.kind = "NoEcho" <=> (TRIGGER_TIME # U32Zero /\ ECHO_TIME = U32Zero)
          /\ result'.kind = "InvalidResult" <=>
                (TRIGGER_TIME # U32Zero /\ ECHO_TIME # U32Zero /\ ~U32Less(TRIGGER_TIME, ECHO_TIME))
          /\ result'.kind = "Ok" <=>
                (TRIGGER_TIME # U32Zero /\ ECHO_TIME # U32Zero /\ U32Less(TRIGGER_TIME, ECHO_TIME))
          /\ result'.kind = "Ok" =>
                /\ U32Less(U32Zero, result'.d)
                /\ ~U32AddOverflows(TRIGGER_TIME, result'.d)
                /\ U32Add(TRIGGER_TIME, result'.d) = ECHO_TIME]_vars

C11_Witness ==
    /\ measurePc = "idle"
    /\ TRIGGER_TIME = U32Of(100)
    /\ ECHO_TIME = U32Of(130)
    /\ result = [kind |-> "Ok", d |-> U32Of(30)]

(***************************************************************************)
(* C12: a measure_us call that leaves the wait loop, by success or by      *)
(* timeout, returns with the echo interrupt detached and the ranging state *)
(* Idle, whatever its result; so the next call finds the state Idle.       *)
(***************************************************************************)
C12_IdleOnReturn ==
    /\ measurePc = "idle" => (hcState = "Idle" /\ ~int1Enabled)
    /\ result.kind \in {"none", "Ok", "NoTrigger", "NoEcho", "InvalidResult"}
    /\ halted # "main"

\* a second call has passed its precondition after a first one timed out
C12_Witness ==
    /\ measurePc = "loop"
    /\ hcState = "Triggered"
    /\ result.kind = "NoTrigger"

\* the other three results are returned as well
C12_ReturnedOk == measurePc = "idle" /\ result.kind = "Ok"
C12_ReturnedNoEcho == measurePc = "idle" /\ result.kind = "NoEcho"
C12_ReturnedInvalidResult == measurePc = "idle" /\ result.kind = "InvalidResult"

(***************************************************************************)
(* C13: measure_us asserts on entry that the ranging state is Idle; a call *)
(* entered in state Triggered or Measuring ends in that assertion with the *)
(* cells, the trigger pin and the state untouched, and only a call entered *)
(* in state Idle starts a measurement.                                     *)
(***************************************************************************)
C13_AssertsIdleOnEntry ==
    [][/\ (measurePc = "idle" /\ hcState # "Idle") =>
             /\ halted' = "main"
             /\ ~pulsed'
             /\ UNCHANGED <<hcState, TRIGGER_TIME, ECHO_TIME, int1Enabled, int1Mode>>
       /\ (measurePc = "idle" /\ measurePc' = "loop") =>
             /\ hcState = "Idle"
             /\ hcState' = "Triggered"
             /\ pulsed'
             /\ halted' = "run"]_vars

\* a call entered in state Measuring has ended in the assertion
C13_Witness ==
    /\ halted = "main"
    /\ measurePc = "idle"
    /\ hcState = "Measuring"
    /\ TRIGGER_TIME = U32Of(100)
    /\ ~pulsed

(***************************************************************************)
(* C14: with a timeout supplied, the wait loop is left at its first head   *)
(* where the elapsed time exceeds the timeout; and when INT1 never ran and *)
(* the loop never read the echo pin high during the call, the result is    *)
(* NoTrigger.                                                              *)
(***************************************************************************)
TimedOut == timeout # NoTimeout /\ U32Less(U32Of(timeout), U32Sub(now, start))

NoEdgeSeen == isrTrigger = NotCaptured /\ isrEcho = NotCaptured /\ ~sawHigh

C14_TimeoutWithoutEdges ==
    [][/\ (measurePc = "loop" /\ measurePc' # "loop" /\ TimedOut) => measurePc' = "exit"
       /\ (measurePc = "loop" /\ measurePc' = "exit") => TimedOut
       /\ (measurePc = "exit" /\ measurePc' = "idle" /\ timeout # NoTimeout /\ NoEdgeSeen) =>
             result'.kind = "NoTrigger"]_vars

\* a call with a timeout of 2 ticks has returned NoTrigger after 3 ticks
\* without any edge
C14_Witness ==
    /\ measurePc = "idle"
    /\ timeout = 2
    /\ NoEdgeSeen
    /\ U32Sub(now, start) = U32Of(3)
    /\ result.kind = "NoTrigger"

(***************************************************************************)
(* C15: once the timer is donated Servo::new succeeds while fewer than 12  *)
(* slots are registered and returns TooManyServos from the 13th            *)
(* registration on, never earlier; the table never holds more than 12      *)
(* slots and a failed registration leaves it unchanged.                    *)
(***************************************************************************)
C15_Capacity ==
    [][/\ Len(servos') <= MAX_SERVOS
       /\ (Len(servos') # Len(servos)) =>
             /\ tc1Donated
             /\ newResult' = "Ok"
             /\ Len(servos') = Len(servos) + 1
             /\ \A k \in Slots : servos'[k] = servos[k]
       /\ (newResult' # newResult /\ tc1Donated /\ Len(servos) < MAX_SERVOS) =>
             (newResult' = "Ok" /\ Len(servos') = Len(servos) + 1)
       /\ (newResult' # newResult /\ tc1Donated /\ Len(servos) = MAX_SERVOS) =>
             (newResult' = "TooManyServos" /\ servos' = servos)
       /\ newResult' = "TooManyServos" => Len(servos) = MAX_SERVOS
       /\ (newResult' # newResult /\ ~tc1Donated) =>
             (newResult' = "NotInitialized" /\ servos' = servos)]_vars

\* the 13th registration has failed
C15_Witness ==
    /\ Len(servos) = MAX_SERVOS
    /\ newResult = "TooManyServos"

(***************************************************************************)
(* C16: write_us(v) on a handle attached with attach_with_limits(min, max) *)
(* stores the ticks of clamp(v, min, max), so the stored pulse width t     *)
(* satisfies 2 * min <= t <= 2 * max.                                      *)
(***************************************************************************)
C16_WriteUsClamps ==
    [][\A k \in Slots :
          (servos'[k].ticks # servos[k].ticks \/ lastWrite'[k] # lastWrite[k]) =>
             /\ servos'[k].ticks =
                   us_to_ticks(Clamp(lastWrite'[k].value, attachedWith[k].min,
                                     attachedWith[k].max))
             /\ 2 * attachedWith[k].min <= servos'[k].ticks
             /\ servos'[k].ticks <= 2 * attachedWith[k].max]_vars

(***************************************************************************)
(* C17: the slot of a registered actuator that has not been written holds  *)
(* the ticks of the 1500 microsecond default pulse, us_to_ticks(1500) =    *)
(* 3000.                                                                   *)
(***************************************************************************)
C17_DefaultPulse ==
    \A k \in Slots :
        lastWrite[k].kind = "none" => servos[k].ticks = us_to_ticks(DEFAULT_PULSE_WIDTH)

(***************************************************************************)
(* C18: a dispatched UP with the pitch position above PITCH_MIN lowers the *)
(* position by PITCH_MOVE_SPEED (8) and writes the new position to the     *)
(* pitch actuator only; a dispatched UP with the position at PITCH_MIN     *)
(* changes nothing and writes nothing; DOWN likewise with PITCH_MAX.  The  *)
(* yaw and roll slots are unchanged in every case.                         *)
(***************************************************************************)
\* this step is handle_command taking command c out of the mailbox
Dispatches(c) == CMD # NoCmd /\ CMD' = NoCmd /\ CMD.cmd = c

\* UP or DOWN is dispatched with room to move
PitchMoves ==
    \/ Dispatches(UP) /\ pitch_value > PITCH_MIN
    \/ Dispatches(DOWN) /\ pitch_value < PITCH_MAX

PitchStep == IF CMD.cmd = UP THEN -PITCH_MOVE_SPEED ELSE PITCH_MOVE_SPEED

C18_UpDown ==
    [][(Dispatches(UP) \/ Dispatches(DOWN)) =>
          /\ servos'[YawSlot] = servos[YawSlot]
          /\ servos'[RollSlot] = servos[RollSlot]
          /\ IF PitchMoves
             THEN /\ pitch_value' = pitch_value + PitchStep
                  /\ written' = << <<PitchSlot, pitch_value'>> >>
             ELSE /\ pitch_value' = pitch_value
                  /\ written' = <<>>
                  /\ servos' = servos]_vars

\* the same for the dispatches whose write returns
C18_UpDownCompleted ==
    [][(Dispatches(UP) \/ Dispatches(DOWN)) =>
          /\ servos'[YawSlot] = servos[YawSlot]
          /\ servos'[RollSlot] = servos[RollSlot]
          /\ IF PitchMoves
             THEN /\ pitch_value' = pitch_value + PitchStep
                  /\ halted' = "run" => written' = << <<PitchSlot, pitch_value'>> >>
                  /\ halted' # "run" => servos' = servos
             ELSE /\ pitch_value' = pitch_value
                  /\ written' = <<>>
                  /\ servos' = servos]_vars

(***************************************************************************)
(* C19: a dispatched OK or STAR with repeat = false writes the off-centre  *)
(* value to the roll actuator and, after the delay, the stop value, once   *)
(* per command, so that the last value written to the roll actuator is the *)
(* stop speed; with repeat = true it writes nothing.                       *)
(***************************************************************************)
FireValue == ROLL_STOP_SPEED - ROLL_MOVE_SPEED

\* this step is the write after the delay of fire or fire_all
FireEnds == turretPc \in {"fire", "fire_all"} /\ turretPc' = "idle"

C19_FireDebounce ==
    [][/\ ((Dispatches(OK) \/ Dispatches(STAR)) /\ CMD.repeat) =>
             /\ written' = <<>>
             /\ servos' = servos
             /\ turretPc' = "idle"
       /\ ((Dispatches(OK) \/ Dispatches(STAR)) /\ ~CMD.repeat) =>
             /\ written' = << <<RollSlot, FireValue>> >>
             /\ turretPc' = IF CMD.cmd = OK THEN "fire" ELSE "fire_all"
       /\ FireEnds =>
             written' = << <<RollSlot, FireValue>>, <<RollSlot, ROLL_STOP_SPEED>> >>]_vars

\* the same for the commands whose writes return
C19_FireCompleted ==
    [][/\ ((Dispatches(OK) \/ Dispatches(STAR)) /\ CMD.repeat) =>
             /\ written' = <<>>
             /\ servos' = servos
             /\ turretPc' = "idle"
       /\ ((Dispatches(OK) \/ Dispatches(STAR)) /\ ~CMD.repeat /\ halted' = "run") =>
             /\ written' = << <<RollSlot, FireValue>> >>
             /\ turretPc' = IF CMD.cmd = OK THEN "fire" ELSE "fire_all"
       /\ (FireEnds /\ halted' = "run") =>
             written' = << <<RollSlot, FireValue>>, <<RollSlot, ROLL_STOP_SPEED>> >>]_vars

\* the stop write changes the pulse width the off-centre write has stored
C19_StopChangesPulse ==
    [][(FireEnds /\ halted' = "run") =>
          servos'[RollSlot].ticks # servos[RollSlot].ticks]_vars

(***************************************************************************)
(* C20: the mailbox holds at most one command, the one PCINT0 decoded      *)
(* last: a decoded command replaces a pending one, and of the commands     *)
(* decoded while a motion sequence runs only the most recent is dispatched *)
(* afterwards, once.                                                       *)
(***************************************************************************)
Commands == [cmd : CmdCodes, repeat : BOOLEAN]

C20_MailboxSingleSlot ==
    [][/\ CMD' \in Commands \cup {NoCmd}
       /\ CMD' # NoCmd => CMD' = decodeLog'.last
       /\ decodeLog'.last # decodeLog.last => (CMD' = decodeLog'.last /\ dispatched' = dispatched)
       /\ (CMD # NoCmd /\ CMD' = NoCmd) =>
             /\ dispatched' = decodeLog.last
             /\ turretPc = "idle"
       /\ dispatched' # dispatched => (CMD # NoCmd /\ CMD' = NoCmd)
       /\ CMD = NoCmd => dispatched' = dispatched]_vars

\* two or more commands were decoded during one motion sequence and the
\* dispatch that followed took the most recent
C20_Witness ==
    /\ decodeLog.taken >= 2
    /\ CMD = NoCmd
    /\ dispatched = decodeLog.last

(***************************************************************************)
(* C21: in every interleaving of PCINT0 with fetch_message, the fetch      *)
(* returns the pending command and clears it atomically: it returns None   *)
(* on an empty mailbox, the mailbox is empty right after the fetch, what   *)
(* is cleared is what is returned, and a stored command is returned by at  *)
(* most one fetch.                                                         *)
(***************************************************************************)
C21_FetchAtomic ==
    [][/\ (fetchPc = "read" /\ fetchPc' = "clear") =>
             /\ fetched' = CMD
             /\ fetched' # NoCmd => (stored /\ fetched' = decodeLog.last)
       /\ (fetchPc = "clear" /\ fetchPc' = "exit") =>
             /\ CMD = fetched
             /\ CMD' = NoCmd
             /\ ~stored'
       /\ (fetchPc = "exit" /\ fetchPc' = "idle") => CMD = NoCmd
       /\ (fetchPc # "idle" /\ fetchPc' = fetchPc) => CMD' = CMD
       /\ fetched' # fetched => (fetchPc = "read" /\ fetchPc' = "clear")]_vars

\* a fetch has returned a stored command and the next one has returned None
C21_Witness ==
    /\ fetchPc = "idle"
    /\ fetched = NoCmd
    /\ decodeLog.last # NoCmd
    /\ CMD = NoCmd

(***************************************************************************)
(* C22: Servo::new returns NotInitialized if and only if donate_tc1 has    *)
(* not been called, whatever the number of registered slots, and such a    *)
(* call leaves the slot table unchanged.                                   *)
(***************************************************************************)
C22_NotInitialized ==
    [][/\ newResult' # newResult =>
             /\ (newResult' = "NotInitialized") <=> ~tc1Donated
             /\ tc1Donated' = tc1Donated
       /\ newResult' = "NotInitialized" =>
             /\ ~tc1Donated
             /\ servos' = servos
             /\ limits' = limits
       /\ ~tc1Donated => Len(servos') = Len(servos)
       /\ (tc1Donated /\ newResult = "none") => newResult' # "NotInitialized"]_vars

\* a registration before the hand-over of the timer has failed
C22_Witness ==
    /\ newResult = "NotInitialized"
    /\ ~tc1Donated
    /\ servos = <<>>

(***************************************************************************)
(* C23: a successful registration gets the next free slot, distinct from   *)
(* every earlier one, and leaves the earlier slots alone; write() and      *)
(* write_us() on one handle change the ticks of that handle's slot only    *)
(* and no attached flag, also for the 12 handles after a failed 13th       *)
(* registration.                                                           *)
(***************************************************************************)
C23_HandlesIndependent ==
    [][/\ Len(servos') # Len(servos) =>
             /\ Len(servos') = Len(servos) + 1
             /\ \A k \in Slots : servos'[k] = servos[k] /\ lastWrite'[k] = lastWrite[k]
       /\ Len(servos') = Len(servos) =>
             \A i \in Slots :
                /\ lastWrite'[i] # lastWrite[i] =>
                      /\ \A j \in Slots : j # i => servos'[j] = servos[j]
                      /\ servos'[i] = [servos[i] EXCEPT !.ticks = servos'[i].ticks]
                      /\ servos[i].attached
                /\ servos'[i].ticks # servos[i].ticks => lastWrite'[i] # lastWrite[i]]_vars

\* after the failed 13th registration the first and the last handle hold
\* different written widths, next to slots never written
C23_Witness ==
    /\ newResult = "TooManyServos"
    /\ Len(servos) = MAX_SERVOS
    /\ lastWrite[1].kind # "none"
    /\ lastWrite[MAX_SERVOS].kind # "none"
    /\ servos[1].ticks # servos[MAX_SERVOS].ticks
    /\ servos[2].ticks = DEFAULT_PULSE_WIDTH

(***************************************************************************)
(* C24: build() is reached only after yaw, pitch, roll and range_finder    *)
(* have each been supplied once, in any order; a yaw, pitch or roll step   *)
(* that returns a ServoError consumes the builder and no Turret is         *)
(* produced from it; a Turret holds three distinct attached actuators and  *)
(* a ranging driver.                                                       *)
(***************************************************************************)
ServoFields == {"yaw", "pitch", "roll"}

C24_BuilderGating ==
    [][/\ turret' # NoTurret =>
             /\ turret'.range_finder = 1
             /\ \A f \in ServoFields :
                   /\ turret'[f] \in 1..Len(servos')
                   /\ servos'[turret'[f]].attached
             /\ \A f, g \in ServoFields : f # g => turret'[f] # turret'[g]
       /\ turret' # turret =>
             /\ turret = NoTurret
             /\ builder.st = "open"
             /\ \A f \in BuilderFields : builder[f] # 0 /\ turret'[f] = builder[f]
       /\ builder.st = "consumed" => (builder' = builder /\ turret' = NoTurret)
       /\ (builder.st = "open" /\ builder'.st = "consumed") =>
             /\ newResult' \in {"NotInitialized", "TooManyServos"}
             /\ servos' = servos
       /\ (builder.st = "open" /\ builder'.st = "open") =>
             \A f \in BuilderFields : builder[f] # 0 => builder'[f] = builder[f]
       /\ (builder.st = "open" /\ newResult' # "Ok" /\ servos' = servos /\ builder' # builder
              /\ builder'.st # "built") =>
             builder'.range_finder # builder.range_finder \/ builder'.st = "consumed"]_vars

\* a Turret built with the roll actuator registered before the yaw actuator
C24_Witness ==
    /\ turret # NoTurret
    /\ turret.roll < turret.yaw
    /\ builder.st = "built"

(***************************************************************************)
(* C25: a dispatched command whose code is none of UP, DOWN, LEFT, RIGHT,  *)
(* OK and STAR is taken out of the mailbox, writes to no actuator and      *)
(* leaves the pitch position unchanged.                                    *)
(***************************************************************************)
KnownCodes == {UP, DOWN, LEFT, RIGHT, OK, STAR}

C25_UnknownCommand ==
    [][\A c \in CmdCodes \ KnownCodes :
          Dispatches(c) =>
             /\ CMD' = NoCmd
             /\ dispatched' = CMD
             /\ written' = <<>>
             /\ servos' = servos
             /\ pitch_value' = pitch_value
             /\ turretPc' = "idle"
             /\ halted' = halted]_vars

\* a reserved keypad code has been dispatched after the pitch has moved
C25_Witness ==
    /\ dispatched.cmd \in CmdCodes \ KnownCodes
    /\ CMD = NoCmd
    /\ written = <<>>
    /\ pitch_value # PitchBuilt
    /\ halted = "run"

(***************************************************************************)
(* C26: for every (KHZ, PRESCALE) the compile-time assertion accepts,      *)
(* TOP = 16,000,000 / (PRESCALE * KHZ * 1000) - 1 fits in 8 bits and the   *)
(* cast to u8 keeps it; pairs whose value does not fit are rejected; for   *)
(* Clock<40, 8> TOP is 49 and 16,000,000 / (8 * (TOP + 1)) is FREQ, 40,000.*)
(***************************************************************************)
\* the compare value in unbounded integers (-1 where the quotient is 0)
TopValue(khz, prescale) ==
    IF prescale * khz > F_CPU \div 1000 THEN -1
    ELSE F_CPU \div (prescale * khz * 1000) - 1

TopFits(khz, prescale) ==
    /\ prescale * khz > 0
    /\ TopValue(khz, prescale) \in 0..255

C27_NoMissedEdge ==
    (measurePc = "idle" /\ echoEdges = "fell") =>
        /\ isrTrigger # NotCaptured
        /\ isrEcho # NotCaptured
        /\ result.kind \notin {"NoTrigger", "NoEcho"}

\* the rising edge was captured at a non-zero tick, the pin was never read high,
\* and the falling edge came while INT1 still waited for a rising one
C27_ShortPulseMissed ==
    /\ measurePc = "idle"
    /\ echoEdges = "fell"
    /\ isrTrigger # NotCaptured
    /\ isrTrigger # U32Zero
    /\ ~sawHigh
    /\ isrEcho = NotCaptured
    /\ result.kind = "NoEcho"


\* C28 (ranging state ordering): the ranging state moves only Idle -> Triggered,
\* Triggered -> Measuring, Measuring -> Idle and Triggered -> Idle; Measuring is
\* entered, with INT1 re-armed for the falling edge, only when the trigger
\* timestamp is captured; the echo timestamp is captured only in state Measuring,
\* so a captured echo implies a captured trigger; the wait loop leaves by its
\* success test only when both timestamps are captured.
C28_StateOrdering ==
    [][ /\ hcState' # hcState =>
             <<hcState, hcState'>> \in {<<"Idle", "Triggered">>, <<"Triggered", "Measuring">>,
                                        <<"Measuring", "Idle">>, <<"Triggered", "Idle">>}
        /\ (hcState' = "Measuring" /\ hcState # "Measuring") =>
             /\ TRIGGER_TIME # U32Zero
             /\ int1Enabled' /\ int1Mode' = "Falling"
        /\ (ECHO_TIME' # ECHO_TIME /\ ECHO_TIME' # U32Zero) => hcState = "Measuring"
        /\ (isrEcho' # isrEcho /\ isrEcho' # NotCaptured) => hcState = "Measuring"
        /\ ECHO_TIME' # U32Zero => TRIGGER_TIME' # U32Zero
        /\ (measurePc = "poll_echo" /\ measurePc' = "exit") =>
             TRIGGER_TIME # U32Zero /\ ECHO_TIME # U32Zero /\ hcState = "Measuring"
      ]_vars

\* the wait loop has left by its success test: state Measuring, both cells set
C28_Witness ==
    /\ measurePc = "exit"
    /\ hcState = "Measuring"
    /\ TRIGGER_TIME # U32Zero
    /\ ECHO_TIME # U32Zero
    /\ isrEcho # NotCaptured


\* a step of the INT1 handler: only the handler run clears the interrupt flag
Int1Step == int1Flag /\ ~int1Flag'

\* the frame of the INT1 handler: the ranging state is left alone, state Triggered
\* writes only TRIGGER_TIME, state Measuring only ECHO_TIME, state Idle neither
HandlerFrame ==
    Int1Step =>
        /\ hcState' = hcState
        /\ hcState = "Triggered" => ECHO_TIME' = ECHO_TIME
        /\ hcState = "Measuring" => TRIGGER_TIME' = TRIGGER_TIME
        /\ hcState = "Idle" => (TRIGGER_TIME' = TRIGGER_TIME /\ ECHO_TIME' = ECHO_TIME)

\* C29 (ranging edge handler frame): INT1 never changes the ranging state, writes
\* only the trigger cell in state Triggered, only the echo cell in state Measuring
\* and neither in state Idle, so an edge that arrives after a measurement has
\* ended changes no timestamp of a later measurement: a trigger time captured by
\* INT1 comes from a rising edge of the running measurement.
C29_EdgeHandlerFrame ==
    /\ [][HandlerFrame]_vars
    /\ [](isrTrigger # NotCaptured => echoEdges # "none")

\* the handler's own writes, without the consequence drawn from them
C29_HandlerWrites == [][HandlerFrame]_vars

\* a call that saw no echo edge of its own returned NoEcho, not NoTrigger,
\* because INT1 ran on the flag an earlier edge had left pending
C29_StaleEdgeCaptured ==
    /\ measurePc = "idle"
    /\ echoEdges = "none"
    /\ ~sawHigh
    /\ isrTrigger # NotCaptured
    /\ result.kind = "NoEcho"


\* the ticks between two writes of the main counter
FoldPeriod == FoldThreshold + 2

\* C30 (clock fold step): a tick with part <= 250 adds one to part and leaves the
\* main counter alone; a tick with part > 250 adds part to the main counter,
\* wrapping at 2^32, and resets part to 0 in the same step; part stays within
\* 0..251, the main counter decreases only by wrapping, and it is written on
\* exactly one of every 252 consecutive ticks.
C30_FoldStep ==
    [][ /\ part \in 0..(FoldThreshold + 1)
        /\ part' \in 0..(FoldThreshold + 1)
        /\ nTicks' = nTicks => (part' = part /\ counter' = counter)
        /\ nTicks' = nTicks + 1 =>
             /\ part <= FoldThreshold => (part' = part + 1 /\ counter' = counter)
             /\ part > FoldThreshold =>
                  (part' = 0 /\ counter' = U32Add(counter, U32Of(part)))
             /\ \/ counter' = counter
                \/ U32Less(counter, counter')
                \/ U32AddOverflows(counter, U32Of(part))
             /\ counter' # counter <=> nTicks % FoldPeriod = FoldPeriod - 1
      ]_vars

\* the first fold has wrapped the main counter: 2^32 - 123 + 251 = 2^32 + 128
C30_Witness ==
    /\ nTicks = FoldPeriod
    /\ part = 0
    /\ counter = U32Of(128)


\* a step that attaches the handle of slot i
Attaches(i) == i \in Slots /\ ~servos[i].attached /\ Len(servos') = Len(servos) /\ servos'[i].attached

\* C31 (servo attach and timer start): an attach while no slot is attached
\* initialises timer 1 (prescaler 8, hardware counter 0, compare interrupt
\* enabled); an attach while another slot is attached neither resets the hardware
\* counter nor changes the channel index; either way it sets the attached flag of
\* that handle's slot only and leaves the stored ticks of every slot unchanged.
C31_AttachStartsTimer ==
    [][ \A i \in 1..MAX_SERVOS : Attaches(i) =>
          /\ ~is_timer_active(servos) => (timerRunning' /\ tcnt' = 0 /\ ocie1a')
          /\ is_timer_active(servos) => (tcnt' = tcnt /\ CHANNEL' = CHANNEL)
          /\ \A k \in Slots : k # i => servos'[k].attached = servos[k].attached
          /\ \A k \in Slots : servos'[k].ticks = servos[k].ticks
      ]_vars

\* a second handle was attached while the counter of the running timer was not 0
\* and the slots hold different ticks
C31_Witness ==
    /\ Len(servos) = 2
    /\ servos[1].attached /\ servos[2].attached
    /\ servos[1].ticks # servos[2].ticks
    /\ tcnt # 0
    /\ CHANNEL # 0


\* C32 (servo slots are never removed): no operation lowers the number of
\* registered slots; detach and attach keep the slot of the handle with the ticks
\* it stored; detached slots free no capacity: with 12 slots registered and all
\* of them detached Servo::new still returns TooManyServos.
C32_SlotsNeverRemoved ==
    [][ /\ Len(servos') >= Len(servos)
        /\ \A k \in Slots :
              servos'[k].attached # servos[k].attached => servos'[k].ticks = servos[k].ticks
        /\ (Len(servos) = MAX_SERVOS /\ \A k \in Slots : ~servos[k].attached) =>
              /\ Len(servos') = MAX_SERVOS
              /\ newResult' \in {newResult, "TooManyServos"}
      ]_vars

\* the 13th registration failed with all 12 slots detached, the first of them
\* holding the ticks written before it was detached
C32_Witness ==
    /\ Len(servos) = MAX_SERVOS
    /\ \A k \in Slots : ~servos[k].attached
    /\ newResult = "TooManyServos"
    /\ servos[1].ticks # DEFAULT_PULSE_WIDTH


\* a run of TIMER1_COMPA that found the channel index negative
FrameStarts == CHANNEL < 0 /\ (CHANNEL' # CHANNEL \/ tcnt' # tcnt)

\* C33 (servo multiplexer, frame start): TIMER1_COMPA run with a negative channel
\* index resets the hardware counter to 0 and drives no pin low; the channel
\* index becomes 0 and, when actuator 0 exists, the next compare event is
\* scheduled at its stored ticks counted from 0.
C33_FrameStart ==
    [][ FrameStarts =>
          /\ tcnt' = 0
          /\ \A k \in Slots : servos[k].pin => servos'[k].pin
          /\ 1 \in Slots => (CHANNEL' = 0 /\ ocr1a' = servos[1].ticks)
      ]_vars

\* a frame has started after a whole frame ran: the counter is 0 again and the
\* first slot is scheduled at ticks other than the default
C33_Witness ==
    /\ CHANNEL = 0
    /\ tcnt = 0
    /\ frameElapsed = 0
    /\ framePeriod > 0
    /\ ocr1a = servos[1].ticks
    /\ ocr1a # DEFAULT_PULSE_WIDTH


\* C34 (servo multiplexer, detached slots): TIMER1_COMPA changes the pin only of a
\* slot whose attached flag is set at that moment; when the channel advances to a
\* registered but detached slot the compare register is still set to the counter
\* plus that slot's stored ticks, and its pin is left alone.
C34_DetachedSlots ==
    [][ \A k \in Slots :
          /\ servos'[k].pin # servos[k].pin => servos[k].attached
          /\ (CHANNEL' # CHANNEL /\ CHANNEL' = k - 1 /\ ~servos[k].attached) =>
                /\ ocr1a' = WrapU16(tcnt' + servos[k].ticks)
                /\ servos'[k].pin = servos[k].pin
      ]_vars

\* the channel has advanced to the detached second slot while the first one is
\* attached: the second slot's time is scheduled and its pin is low
C34_Witness ==
    /\ Len(servos) = 2
    /\ servos[1].attached
    /\ ~servos[2].attached
    /\ CHANNEL = 1
    /\ tcnt # 0
    /\ ocr1a = WrapU16(tcnt + servos[2].ticks)
    /\ ~servos[2].pin


\* C35 (start-up ordering): global interrupts stay disabled from before
\* CLOCK.start until the receiver is stored, timer 1 is donated and the turret is
\* built; the timer 1 compare interrupt is armed only by an attach on a slot
\* registered after donate_tc1; so PCINT0 can run only with RECEIVER set,
\* TIMER1_COMPA only with TC1 set, and neither handler halts on unwrap.
C35_StartupOrdering ==
    /\ mainPc \in StartupPcs => irqOff
    /\ ~irqOff => (RECEIVER /\ tc1Donated /\ builder.st = "built")
    /\ ocie1a => (tc1Donated /\ is_timer_active(servos))
    /\ (~irqOff /\ pcie0) => RECEIVER
    /\ (~irqOff /\ ocie1a /\ timerRunning) => tc1Donated
    /\ halted # "isr"

\* the main loop is reached with interrupts enabled and both handlers have run
C35_Witness ==
    /\ mainPc = "loop"
    /\ ~irqOff
    /\ CMD # NoCmd
    /\ CHANNEL = 2
    /\ tcnt # 0
    /\ halted = "run"


\* the actuator pins that are high
HighPins == {k \in Slots : servos[k].pin}

\* C36 (servo pins under attach/detach interleavings): in every interleaving of
\* attach, detach and write with TIMER1_COMPA at most one actuator pin is high,
\* and a pin that is high when TIMER1_COMPA runs is low after that run; an
\* actuator detached during its high phase does not keep its pin high.
C36_PinsUnderDetach ==
    [][ /\ Cardinality(HighPins) <= 1 /\ Cardinality(HighPins') <= 1
        /\ CHANNEL' # CHANNEL => \A k \in Slots : servos[k].pin => ~servos'[k].pin
      ]_vars

\* two actuator pins are high at once
C36_TwoPinsHigh == Cardinality(HighPins) >= 2

\* a detached actuator's pin is high while the channel is at the other slot
C36_DetachedPinHigh ==
    /\ Len(servos) = 2
    /\ ~servos[1].attached
    /\ servos[1].pin
    /\ CHANNEL = 1


\* the positions 4, 12, 20, ..., 172, 180
PitchValues == {4 + PITCH_MOVE_SPEED * k : k \in 0..22}

\* C37 (dispatcher pitch values): from 100 in steps of 8 the pitch position is
\* always one of 4, 12, ..., 172, 180, so it stays within 0..180: the cast of the
\* position to u8 passed to write() keeps its value and write()'s clamp to
\* 0..=180 does not alter it.
C37_PitchValues ==
    /\ pitch_value \in PitchValues
    /\ pitch_value \in 0..180
    /\ WrapU8(pitch_value) = pitch_value
    /\ Clamp(WrapU8(pitch_value), 0, 180) = pitch_value
    /\ (halted = "run" /\ lastWrite[PitchSlot].kind = "angle") =>
          lastWrite[PitchSlot].value = pitch_value

\* the position has reached its lowest value and was written to the pitch actuator
C37_Witness ==
    /\ pitch_value = 4
    /\ halted = "run"
    /\ lastWrite[PitchSlot].kind = "angle"
    /\ lastWrite[PitchSlot].value = 4


\* C38 (ranging zero sentinel): an edge captured by INT1 is never reported as
\* missing: when INT1 ran in state Triggered during the measurement the result
\* is not NoTrigger, and when it also ran in state Measuring the result is not
\* NoEcho, whatever the clock read at the edge, 0 included.
C38_CapturedNotMissing ==
    (measurePc = "idle" /\ result # NoResult) =>
        /\ isrTrigger # NotCaptured => result.kind # "NoTrigger"
        /\ (isrTrigger # NotCaptured /\ isrEcho # NotCaptured) => result.kind # "NoEcho"

\* INT1 captured the rising edge of this measurement at clock value 0 and the
\* call returned NoTrigger
C38_ZeroCaptureLost ==
    /\ measurePc = "idle"
    /\ echoEdges # "none"
    /\ isrTrigger = U32Zero
    /\ result.kind = "NoTrigger"


\* C39 (dispatcher repeat flag on motion commands): UP, DOWN, LEFT and RIGHT are
\* dispatched the same way with the repeat flag set or clear, one step or one
\* motion per consumed command; only OK and STAR look at the flag, and with it
\* set they write nothing.
C39_RepeatOnMotion ==
    [][ /\ Dispatches(UP) =>
             /\ turretPc' = "idle"
             /\ pitch_value' = IF pitch_value > PITCH_MIN
                               THEN pitch_value - PITCH_MOVE_SPEED ELSE pitch_value
        /\ Dispatches(DOWN) =>
             /\ turretPc' = "idle"
             /\ pitch_value' = IF pitch_value < PITCH_MAX
                               THEN pitch_value + PITCH_MOVE_SPEED ELSE pitch_value
        /\ Dispatches(LEFT) => (turretPc' = "move_left" /\ pitch_value' = pitch_value)
        /\ Dispatches(RIGHT) => (turretPc' = "move_right" /\ pitch_value' = pitch_value)
        /\ Dispatches(OK) => turretPc' = IF CMD.repeat THEN "idle" ELSE "fire"
        /\ Dispatches(STAR) => turretPc' = IF CMD.repeat THEN "idle" ELSE "fire_all"
        /\ ((Dispatches(OK) \/ Dispatches(STAR)) /\ CMD.repeat) =>
             (written' = <<>> /\ servos' = servos /\ halted' = halted)
      ]_vars

\* a repeated UP has moved the pitch position one step
C39_Witness ==
    /\ dispatched = [cmd |-> UP, repeat |-> TRUE]
    /\ pitch_value = PitchBuilt - PITCH_MOVE_SPEED
    /\ turretPc = "idle"
    /\ decodeLog.taken = 0


\* C40 (servo multiplexer channel bounds): between runs of TIMER1_COMPA the
\* channel index c satisfies -1 <= c <= max(0, count - 1), count being the number
\* of registered slots (at most 12), in every interleaving with Servo::new; so
\* the handler never casts a negative index to usize (it indexes with c only
\* when c >= 0, and with c + 1 otherwise) and c + 1 never leaves the i8 range.
C40_ChannelBounds ==
    /\ Len(servos) <= MAX_SERVOS
    /\ -1 <= CHANNEL
    /\ CHANNEL <= (IF Len(servos) >= 1 THEN Len(servos) - 1 ELSE 0)
    /\ CHANNEL + 1 <= 127

\* the channel is at the last of two registered slots
C40_Witness ==
    /\ Len(servos) = 2
    /\ CHANNEL = 1
    /\ tcnt # 0

====
